---- MODULE Spec2Model ----
(***************************************************************************)
(* A model of the Tlacuilo PDF viewer backend (src-tauri/src/pdf_viewer.rs) *)
(* as a state machine: the document engine (MuPDF) is the environment, the  *)
(* Tauri commands are the actions.                                          *)
(*                                                                          *)
(* Numbers.  The code computes in f32.  The model computes with exact       *)
(* rationals <<num, den>> over the integers; `as u32` of a non-negative     *)
(* float is floor.  Rounding error of f32 is not modelled.                  *)
(***************************************************************************)
EXTENDS Integers, Sequences, FiniteSets, TLC

VARIABLES
    overflow_checks,  \* build profile: TRUE = debug (u32 overflow panics), FALSE = release (wraps)
    doc,              \* the document stored at DocPath, as the engine sees it
    op,               \* the command call that completed last: [name, args...]
    ret,              \* what that call returned: [kind |-> "ok" | "err" | "panic" | "none", val]
    pc,               \* where the running pdf_search_text is: "idle" | "spawned" | "page" | "hit"
    calls,            \* engine calls and worker dispatches made by the running command
    max_results,      \* search_text_blocking: the result cap
    num_pages,        \* search_text_blocking: document.page_count()
    page_num,         \* search_text_blocking: the page loop's index (0-indexed)
    results,          \* search_text_blocking: the results pushed so far
    total_found,      \* search_text_blocking: the running count of retained hits
    last_page,        \* search_text_blocking: page of the last retained hit (0: none)
    last_y,           \* search_text_blocking: normalized y of the last retained hit
    search_results,   \* the quads pdf_page.search returned for the current page
    hit_i,            \* position of the hit loop in search_results (1-indexed)
    retained,         \* history: for each hit of the current page handled so far, whether it was retained
    tasks,            \* the searches dispatched concurrently: each worker's arguments, locals and result
    seen,             \* history: the result each command call of the session returned first
    files,            \* the file system: for each path, its content when it exists
    files_before,     \* history: the file system when the call in progress was made
    register          \* history: per pdf_path, the map of the last successful save not followed by a delete

search_vars == <<pc, calls, max_results, num_pages, page_num, results, total_found,
                 last_page, last_y, search_results, hit_i, retained>>
file_vars == <<files, files_before, register>>
vars == <<overflow_checks, doc, op, ret, search_vars, tasks, seen, file_vars>>

----------------------------------------------------------------------------
(* Option<T>, Result<T, String> *)

None == <<>>
Some(v) == <<v>>
unwrap_or(o, d) == IF o = None THEN d ELSE o[1]

Ok(v) == [kind |-> "ok", val |-> v]
Err(m) == [kind |-> "err", val |-> m]
Panic(m) == [kind |-> "panic", val |-> m]
NoRet == [kind |-> "none", val |-> ""]
NoOp == [name |-> "none"]

\* the commands of this specification touch no file
NoFiles == files = <<>> /\ files_before = <<>> /\ register = <<>>

----------------------------------------------------------------------------
(* Arithmetic on exact rationals <<num, den>>, den > 0 unless a division by *)
(* zero produced it.                                                        *)

Abs(x) == IF x < 0 THEN -x ELSE x
Min(a, b) == IF a <= b THEN a ELSE b
Max(a, b) == IF a >= b THEN a ELSE b

RECURSIVE Gcd(_, _)
Gcd(a, b) == IF b = 0 THEN a ELSE Gcd(b, a % b)

\* a rational in lowest terms
Reduce(q) ==
    LET g == Gcd(Abs(q[1]), Abs(q[2]))
    IN IF g = 0 THEN q ELSE <<q[1] \div g, q[2] \div g>>

Floor(q) == q[1] \div q[2]

\* `x as u32` for an f32 x: truncation toward zero, saturating at 0 below
AsU32(q) == IF q[2] <= 0 THEN 0 ELSE Max(0, Floor(q))

Mul(q, r) == Reduce(<<q[1] * r[1], q[2] * r[2]>>)

----------------------------------------------------------------------------
(* The document engine (mupdf crate), as the commands use it.               *)

DocPath == "doc.pdf"
Paths == {DocPath, "nofile.pdf"}

Rect(x0, y0, x1, y1) == [x0 |-> x0, y0 |-> y0, x1 |-> x1, y1 |-> y1]
RectWidth(r) == r.x1 - r.x0
RectHeight(r) == r.y1 - r.y0
Letter == Rect(0, 0, 612, 792)

\* a page every engine step succeeds on, without text and without search hits
PlainPage(b) ==
    [load_ok |-> TRUE, bounds_ok |-> TRUE, bounds |-> b,
     pixmap_ok |-> TRUE, png_ok |-> TRUE,
     text_ok |-> TRUE, blocks |-> <<>>,
     search_ok |-> TRUE, hits |-> <<>>]

\* the page with the engine step `stage` failing
FailingPage(b, stage) ==
    [PlainPage(b) EXCEPT !.load_ok = (stage # "load"), !.bounds_ok = (stage # "bounds"),
                         !.pixmap_ok = (stage # "pixmap"), !.png_ok = (stage # "png"),
                         !.text_ok = (stage # "text"), !.search_ok = (stage # "search")]

\* the names document.metadata() is asked for, in the order of lines 683-692
MetadataNames ==
    <<"format", "encryption", "title", "author", "subject", "keywords", "creator",
      "producer", "creation_date", "mod_date">>
MetadataNameSet == {MetadataNames[i] : i \in 1..Len(MetadataNames)}

\* a document without metadata, without bookmarks, of 1234 bytes on disk
MkDoc(openable, pages) ==
    [openable |-> openable, count_ok |-> TRUE, pages |-> pages,
     meta |-> [name \in MetadataNameSet |-> [kind |-> "err", val |-> "no such key"]],
     file_len |-> <<1234>>,
     outlines_ok |-> TRUE, outlines |-> <<>>]

\* Document::open(path)
DocumentOpen(path) ==
    IF path = DocPath /\ doc.openable THEN Ok(doc) ELSE Err("Failed to load PDF")

\* document.load_page(page_index): page_index is an i32, 0-indexed
load_page(document, page_index) ==
    IF /\ page_index >= 0
       /\ page_index < Len(document.pages)
       /\ document.pages[page_index + 1].load_ok
    THEN Ok(document.pages[page_index + 1])
    ELSE Err("Failed to get page")

\* page.bounds()
page_bounds(pdf_page) ==
    IF pdf_page.bounds_ok THEN Ok(pdf_page.bounds) ELSE Err("Failed to get page bounds")

\* floorf(v * scale + 0.001) and ceilf(v * scale - 0.001), the two roundings of
\* MuPDF's fz_round_rect, for an integer coordinate v and a scale with scale[2] > 0
FloorEps(v, scale) ==
    LET q == (v * scale[1]) \div scale[2]
        rem == v * scale[1] - q * scale[2]
    IN IF scale[2] - rem <= scale[2] \div 1000 THEN q + 1 ELSE q

CeilEps(v, scale) ==
    LET q == (v * scale[1]) \div scale[2]
        rem == v * scale[1] - q * scale[2]
    IN IF rem <= scale[2] \div 1000 THEN q ELSE q + 1

\* page.to_pixmap(Matrix::new_scale(scale, scale), ...) and pixmap.width()/height():
\* the pixmap covers fz_round_rect of the page bounds transformed by the matrix
to_pixmap(pdf_page, scale) ==
    IF ~pdf_page.pixmap_ok \/ scale[2] <= 0 THEN Err("Failed to render page")
    ELSE Ok([width  |-> CeilEps(pdf_page.bounds.x1, scale) - FloorEps(pdf_page.bounds.x0, scale),
             height |-> CeilEps(pdf_page.bounds.y1, scale) - FloorEps(pdf_page.bounds.y0, scale),
             png_ok |-> pdf_page.png_ok])

\* `(page - 1) as i32` for a u32 page: 0 - 1 wraps to 0xFFFFFFFF, which is -1 as i32
\* (release build); with overflow checks (debug build) the subtraction panics instead
PageIndexOverflows(page) == page = 0 /\ overflow_checks
PageIndex(page) == IF page = 0 THEN -1 ELSE page - 1

----------------------------------------------------------------------------
(* pdf_render_page                                                          *)

DEFAULT_DPI == 150
POINTS_PER_INCH == 72

\* line 108 with the default dpi in the place of the points per inch
BaseScalePerDefaultDpi(dpi) == Reduce(<<dpi, DEFAULT_DPI>>)

\* line 108: scale = dpi as f32 / 72.0
BaseScale(dpi) == Reduce(<<dpi, POINTS_PER_INCH>>)

\* lines 107-130 without the `scale *= constraint_scale` of the height clamp
RenderScaleHeightKeepsScale(width_points, height_points, dpi, max_width, max_height) ==
    LET scale0 == BaseScale(dpi)
        pw0 == AsU32(<<width_points * scale0[1], scale0[2]>>)
        ph0 == AsU32(<<height_points * scale0[1], scale0[2]>>)
        wfires == max_width # None /\ pw0 > max_width[1]
        cw == IF wfires THEN <<max_width[1], pw0>> ELSE <<1, 1>>
        scale1 == Mul(scale0, cw)
        pw1 == IF wfires THEN max_width[1] ELSE pw0
        ph1 == IF wfires THEN AsU32(<<ph0 * cw[1], cw[2]>>) ELSE ph0
        hfires == max_height # None /\ ph1 > max_height[1]
        ch == IF hfires THEN <<max_height[1], ph1>> ELSE <<1, 1>>
        ph2 == IF hfires THEN max_height[1] ELSE ph1
        pw2 == IF hfires THEN AsU32(<<pw1 * ch[1], ch[2]>>) ELSE pw1
    IN [scale |-> scale1, pixel_width |-> pw2, pixel_height |-> ph2,
        wfires |-> wfires, hfires |-> hfires]

\* lines 107-130: the scale and the computed pixel box
RenderScale(width_points, height_points, dpi, max_width, max_height) ==
    LET scale0 == BaseScale(dpi)
        pw0 == AsU32(<<width_points * scale0[1], scale0[2]>>)
        ph0 == AsU32(<<height_points * scale0[1], scale0[2]>>)
        wfires == max_width # None /\ pw0 > max_width[1]
        \* width constraint
        cw == IF wfires THEN <<max_width[1], pw0>> ELSE <<1, 1>>
        scale1 == Mul(scale0, cw)
        pw1 == IF wfires THEN max_width[1] ELSE pw0
        ph1 == IF wfires THEN AsU32(<<ph0 * cw[1], cw[2]>>) ELSE ph0
        hfires == max_height # None /\ ph1 > max_height[1]
        \* height constraint
        ch == IF hfires THEN <<max_height[1], ph1>> ELSE <<1, 1>>
        scale2 == Mul(scale1, ch)
        ph2 == IF hfires THEN max_height[1] ELSE ph1
        pw2 == IF hfires THEN AsU32(<<pw1 * ch[1], ch[2]>>) ELSE pw1
    IN [scale |-> scale2, pixel_width |-> pw2, pixel_height |-> ph2,
        wfires |-> wfires, hfires |-> hfires]

\* hide_annotations only selects what to_pixmap draws (show_annots); the image data is
\* not modelled, so the result does not depend on it
pdf_render_page(path, page, dpi_opt, max_width, max_height, hide_annotations) ==
    LET dpi == unwrap_or(dpi_opt, DEFAULT_DPI)
        document == DocumentOpen(path)
    IN IF document.kind # "ok" THEN Err("Failed to load PDF")
       ELSE IF PageIndexOverflows(page) THEN Panic("attempt to subtract with overflow")
       ELSE LET pdf_page == load_page(document.val, PageIndex(page))
            IN IF pdf_page.kind # "ok" THEN Err("Failed to get page")
               ELSE LET bounds == page_bounds(pdf_page.val)
                    IN IF bounds.kind # "ok" THEN Err("Failed to get page bounds")
                       ELSE LET r == RenderScale(RectWidth(bounds.val), RectHeight(bounds.val),
                                                 dpi, max_width, max_height)
                                pixmap == to_pixmap(pdf_page.val, r.scale)
                            IN IF pixmap.kind # "ok" THEN Err("Failed to render page")
                               ELSE IF ~pixmap.val.png_ok THEN Err("Failed to encode PNG")
                               ELSE Ok([width |-> pixmap.val.width,
                                        height |-> pixmap.val.height,
                                        page |-> page])

\* pdf_render_thumbnail: lines 164-172
THUMBNAIL_DPI == 72
THUMBNAIL_MAX_SIZE == 200

\* the same with the dpi left to pdf_render_page's default
pdf_render_thumbnail_default_dpi(path, page, max_size_opt) ==
    LET max_size == unwrap_or(max_size_opt, THUMBNAIL_MAX_SIZE)
    IN pdf_render_page(path, page, None, Some(max_size), Some(max_size), None)

pdf_render_thumbnail(path, page, max_size_opt) ==
    LET max_size == unwrap_or(max_size_opt, THUMBNAIL_MAX_SIZE)
    IN pdf_render_page(path, page, Some(THUMBNAIL_DPI), Some(max_size), Some(max_size), None)

----------------------------------------------------------------------------
(* pdf_render_thumbnails                                                    *)

DEFAULT_THUMBNAIL_SIZE == 200

\* lines 198-207 with thumb_width = max_size for every aspect
ThumbnailScaleWidthOnly(width_points, height_points, max_size) ==
    Reduce(<<max_size, width_points>>)

\* lines 198-207: aspect = width / height; thumb_width = max_size if aspect > 1.0,
\* max_size * aspect otherwise; scale = thumb_width / width
ThumbnailScale(width_points, height_points, max_size) ==
    LET wider == IF height_points = 0 THEN width_points > 0   \* aspect is +inf or NaN
                 ELSE width_points > height_points
        thumb_width == IF wider THEN <<max_size, 1>>
                       ELSE <<max_size * width_points, height_points>>
    IN Reduce(<<thumb_width[1], thumb_width[2] * width_points>>)

\* lines 191-239: one turn of the loop; <<>> when the page is skipped
RenderThumbnail(document, pnum, max_size) ==
    LET pdf_page == load_page(document, PageIndex(pnum))
    IN IF pdf_page.kind # "ok" THEN <<>>
       ELSE LET bounds == page_bounds(pdf_page.val)
            IN IF bounds.kind # "ok" THEN <<>>
               ELSE LET scale == ThumbnailScale(RectWidth(bounds.val), RectHeight(bounds.val),
                                                max_size)
                        pixmap == to_pixmap(pdf_page.val, scale)
                    IN IF pixmap.kind # "ok" THEN <<>>
                       ELSE IF ~pixmap.val.png_ok THEN <<>>
                       ELSE <<[width |-> pixmap.val.width, height |-> pixmap.val.height,
                               page |-> pnum]>>

\* lines 188-240: the loop over the requested pages, in order
RECURSIVE RenderThumbnailsLoop(_, _, _, _)
RenderThumbnailsLoop(document, pages, max_size, acc) ==
    IF pages = <<>> THEN Ok(acc)
    ELSE IF PageIndexOverflows(Head(pages)) THEN Panic("attempt to subtract with overflow")
    ELSE RenderThumbnailsLoop(document, Tail(pages), max_size,
                              acc \o RenderThumbnail(document, Head(pages), max_size))

pdf_render_thumbnails(path, pages, max_size_opt) ==
    LET max_size == unwrap_or(max_size_opt, DEFAULT_THUMBNAIL_SIZE)
        document == DocumentOpen(path)
    IN IF document.kind # "ok" THEN Err("Failed to load PDF")
       ELSE RenderThumbnailsLoop(document.val, pages, max_size, <<>>)

----------------------------------------------------------------------------
(* pdf_get_text_blocks                                                      *)

\* a / b in f32, kept as the pair so that the divisor stays visible
Div(a, b) == <<a, b>>

\* page.to_text_page(TextPageOptions::empty())
to_text_page(pdf_page) ==
    IF pdf_page.text_ok THEN Ok(pdf_page.blocks) ELSE Err("Failed to extract text")

NormalizedRect(b, page_width, page_height) ==
    [x |-> Div(b.x0, page_width), y |-> Div(b.y0, page_height),
     width |-> Div(b.x1 - b.x0, page_width), height |-> Div(b.y1 - b.y0, page_height)]

\* lines 347-356: [ul.x, ul.y, ur.x, ur.y, lr.x, lr.y, ll.x, ll.y] normalized
NormalizedQuad(quad, page_width, page_height) ==
    <<Div(quad.ul.x, page_width), Div(quad.ul.y, page_height),
      Div(quad.ur.x, page_width), Div(quad.ur.y, page_height),
      Div(quad.lr.x, page_width), Div(quad.lr.y, page_height),
      Div(quad.ll.x, page_width), Div(quad.ll.y, page_height)>>

\* the same with the push outside the `if let Some(c)`: one entry per char_info
ExtractCharsAll(chars, page_width, page_height) ==
    [i \in 1..Len(chars) |->
        [char |-> unwrap_or(chars[i].char, "?"),
         quad |-> NormalizedQuad(chars[i].quad, page_width, page_height)]]

\* lines 338-363: the characters of a line that decode (char_info.char() is Some)
RECURSIVE ExtractChars(_, _, _)
ExtractChars(chars, page_width, page_height) ==
    IF chars = <<>> THEN <<>>
    ELSE LET char_info == Head(chars)
             rest == ExtractChars(Tail(chars), page_width, page_height)
         IN IF char_info.char # None
            THEN <<[char |-> char_info.char[1],
                    quad |-> NormalizedQuad(char_info.quad, page_width, page_height)]>> \o rest
            ELSE rest

\* line_text: the decoded characters pushed in order
CharDecodes(char_info) == char_info.char # None
LineText(chars) ==
    LET decoded == SelectSeq(chars, CharDecodes)
    IN [i \in 1..Len(decoded) |-> decoded[i].char[1]]

\* lines 329-372, without the test of line 365: every line is pushed
RECURSIVE ExtractLinesKeepEmpty(_, _, _)
ExtractLinesKeepEmpty(lines, page_width, page_height) ==
    IF lines = <<>> THEN <<>>
    ELSE LET line == Head(lines)
         IN <<[text |-> LineText(line.chars),
               rect |-> NormalizedRect(line.bounds, page_width, page_height),
               chars |-> ExtractChars(line.chars, page_width, page_height)]>>
                \o ExtractLinesKeepEmpty(Tail(lines), page_width, page_height)

\* lines 329-372: the lines of a block whose text is not empty
RECURSIVE ExtractLines(_, _, _)
ExtractLines(lines, page_width, page_height) ==
    IF lines = <<>> THEN <<>>
    ELSE LET line == Head(lines)
             line_text == LineText(line.chars)
             rest == ExtractLines(Tail(lines), page_width, page_height)
         IN IF line_text # <<>>
            THEN <<[text |-> line_text,
                    rect |-> NormalizedRect(line.bounds, page_width, page_height),
                    chars |-> ExtractChars(line.chars, page_width, page_height)]>> \o rest
            ELSE rest

\* lines 313-380: blocks without lines are skipped, blocks left without lines dropped
RECURSIVE ExtractBlocks(_, _, _)
ExtractBlocks(blocks, page_width, page_height) ==
    IF blocks = <<>> THEN <<>>
    ELSE LET block == Head(blocks)
             rest == ExtractBlocks(Tail(blocks), page_width, page_height)
         IN IF block.lines = <<>> THEN rest
            ELSE LET lines == ExtractLines(block.lines, page_width, page_height)
                 IN IF lines # <<>>
                    THEN <<[rect |-> NormalizedRect(block.bounds, page_width, page_height),
                            lines |-> lines]>> \o rest
                    ELSE rest

pdf_get_text_blocks(path, page) ==
    LET document == DocumentOpen(path)
    IN IF document.kind # "ok" THEN Err("Failed to load PDF")
       ELSE IF PageIndexOverflows(page) THEN Panic("attempt to subtract with overflow")
       ELSE LET pdf_page == load_page(document.val, PageIndex(page))
            IN IF pdf_page.kind # "ok" THEN Err("Failed to get page")
               ELSE LET bounds == page_bounds(pdf_page.val)
                    IN IF bounds.kind # "ok" THEN Err("Failed to get page bounds")
                       ELSE LET text_page == to_text_page(pdf_page.val)
                            IN IF text_page.kind # "ok" THEN Err("Failed to extract text")
                               ELSE Ok([page |-> page,
                                        blocks |-> ExtractBlocks(text_page.val,
                                                                 RectWidth(bounds.val),
                                                                 RectHeight(bounds.val))])

----------------------------------------------------------------------------
(* pdf_search_text, search_text_blocking                                    *)

DEFAULT_MAX_RESULTS == 1000
MAX_HITS_PER_PAGE == 100
Y_THRESHOLD == <<2, 100>>
NoCalls == [open |-> 0, spawn |-> 0, search |-> 0, hits_remaining |-> 0]

\* no concurrent searches, no session history
NoTasks == <<>>
NoSeen == <<>>

\* the search locals before search_text_blocking runs
SearchIdle ==
    /\ pc = "idle"
    /\ calls = NoCalls
    /\ max_results = 0
    /\ num_pages = 0
    /\ page_num = 0
    /\ results = <<>>
    /\ total_found = 0
    /\ last_page = 0
    /\ last_y = <<-1, 1>>
    /\ search_results = <<>>
    /\ hit_i = 0
    /\ retained = <<>>

\* f32 comparisons of quotients; a quotient with divisor 0 is NaN or infinite, and
\* `<` with it is taken as false
Less(q, r) == q[2] > 0 /\ r[2] > 0 /\ q[1] * r[2] < r[1] * q[2]
LessEq(q, r) == q[2] > 0 /\ r[2] > 0 /\ q[1] * r[2] <= r[1] * q[2]
AbsDiff(q, r) == <<Abs(q[1] * r[2] - r[1] * q[2]), q[2] * r[2]>>

\* document.page_count()
page_count(document) ==
    IF document.count_ok THEN Ok(Len(document.pages)) ELSE Err("Failed to get page count")

Take(seq, n) == SubSeq(seq, 1, Min(n, Len(seq)))

\* line 476 without the .min(100)
HitsRemainingUncapped(cap, found) == cap - found

\* line 476: (max_results - total_found).min(100)
HitsRemaining(cap, found) == Min(cap - found, MAX_HITS_PER_PAGE)

\* pdf_page.search(query, hits_remaining): at most hits_remaining quads, in the
\* engine's order
page_search(pdf_page, query, hits_remaining) ==
    IF pdf_page.search_ok THEN Ok(Take(pdf_page.hits, hits_remaining))
    ELSE Err("search failed")

\* line 416: query.is_empty()
QueryIsEmptyNever(query) == FALSE
QueryIsEmpty(query) == query = <<>>

\* lines 457 and 524: total_found >= max_results
CapReached(found, cap) == found >= cap

\* line 495: same page and |normalized_y - last_y| < Y_THRESHOLD
IsDuplicateAnyPage(current_page, normalized_y, lpage, ly) ==
    Less(AbsDiff(normalized_y, ly), Y_THRESHOLD)
IsDuplicateInclusive(current_page, normalized_y, lpage, ly) ==
    current_page = lpage /\ LessEq(AbsDiff(normalized_y, ly), Y_THRESHOLD)
IsDuplicate(current_page, normalized_y, lpage, ly) ==
    current_page = lpage /\ Less(AbsDiff(normalized_y, ly), Y_THRESHOLD)

\* line 522: total_found += 1
CountHitForgotten(found) == found
CountHit(found) == found + 1

\* line 513: results.push(...)
PushFront(rs, r) == <<r>> \o rs
Push(rs, r) == Append(rs, r)

\* lines 534-566: the text of the first line near match_y that contains the query
ToLower(c) == IF c = "A" THEN "a" ELSE c
Lowercase(text) == [i \in 1..Len(text) |-> ToLower(text[i])]
Contains(text, q) ==
    \E i \in 0..(Len(text) - Len(q)) : SubSeq(text, i + 1, i + Len(q)) = q
RECURSIVE TrimStart(_)
TrimStart(text) ==
    IF text # <<>> /\ Head(text) = " " THEN TrimStart(Tail(text)) ELSE text
RECURSIVE TrimEnd(_)
TrimEnd(text) ==
    IF text # <<>> /\ text[Len(text)] = " " THEN TrimEnd(SubSeq(text, 1, Len(text) - 1))
    ELSE text
Trim(text) == TrimEnd(TrimStart(text))

AllLines(blocks) ==
    LET RECURSIVE Cat(_)
        Cat(bs) == IF bs = <<>> THEN <<>> ELSE Head(bs).lines \o Cat(Tail(bs))
    IN Cat(blocks)

\* the number of bytes of a character in UTF-8 ("eacute" stands for U+00E9)
UTF8Len(c) == IF c = "eacute" THEN 2 ELSE 1

\* str::len(): the length in bytes (one per character and one more for each
\* two-byte character)
ByteLen(text) ==
    Len(text) + Cardinality({i \in 1..Len(text) : UTF8Len(text[i]) = 2})

\* &text[..n]: the characters of the first n bytes; a panic when byte n is not
\* on a character boundary
SliceTo(text, n) ==
    LET boundaries == {k \in 0..Len(text) : ByteLen(SubSeq(text, 1, k)) = n}
    IN IF n > ByteLen(text) THEN Panic("byte index out of bounds")
       ELSE IF boundaries = {} THEN Panic("byte index is not a char boundary")
       ELSE Ok(SubSeq(text, 1, CHOOSE k \in boundaries : TRUE))

CONTEXT_MAX_LEN == 100

extract_context_around_match(text_page, query, match_y) ==
    LET lines == AllLines(text_page)
        Near(line) ==
            \/ Abs(line.bounds.y0 - match_y) < 5
            \/ Abs(line.bounds.y1 - match_y) < 5
            \/ (match_y >= line.bounds.y0 /\ match_y <= line.bounds.y1)
        Matches(line) ==
            Near(line) /\ Contains(Lowercase(LineText(line.chars)), Lowercase(query))
        found == {i \in 1..Len(lines) : Matches(lines[i])}
    IN IF found = {} THEN Ok(query)
       ELSE LET first == CHOOSE i \in found : \A j \in found : i <= j
                trimmed == Trim(LineText(lines[first].chars))
            IN IF ByteLen(trimmed) > CONTEXT_MAX_LEN
               THEN LET cut == SliceTo(trimmed, CONTEXT_MAX_LEN)
                    IN IF cut.kind = "ok" THEN Ok(cut.val \o <<".", ".", ".">>) ELSE cut
               ELSE Ok(trimmed)

\* lines 413-430: the command up to the dispatch of the worker
pdf_search_text(path, query, max_results_opt) ==
    IF QueryIsEmpty(query)
    THEN /\ ret' = Ok([query |-> query, total |-> 0, results |-> <<>>])
         /\ UNCHANGED search_vars
    ELSE /\ ret' = NoRet
         /\ pc' = "spawned"
         /\ calls' = [calls EXCEPT !.spawn = @ + 1]
         /\ max_results' = unwrap_or(max_results_opt, DEFAULT_MAX_RESULTS)
         /\ UNCHANGED <<num_pages, page_num, results, total_found, last_page, last_y,
                        search_results, hit_i, retained>>

\* the same with last_page and last_y outliving the call, as statics would
SearchReturnsKeepsLast(r) ==
    /\ ret' = r
    /\ pc' = "idle"
    /\ calls' = NoCalls
    /\ max_results' = 0
    /\ num_pages' = 0
    /\ page_num' = 0
    /\ results' = <<>>
    /\ total_found' = 0
    /\ UNCHANGED <<last_page, last_y>>
    /\ search_results' = <<>>
    /\ hit_i' = 0
    /\ retained' = <<>>

\* pdf_search_text returns what the worker returned (lines 430-436) and the
\* locals of search_text_blocking go away
SearchReturns(r) ==
    /\ ret' = r
    /\ pc' = "idle"
    /\ calls' = NoCalls
    /\ max_results' = 0
    /\ num_pages' = 0
    /\ page_num' = 0
    /\ results' = <<>>
    /\ total_found' = 0
    /\ last_page' = 0
    /\ last_y' = <<-1, 1>>
    /\ search_results' = <<>>
    /\ hit_i' = 0
    /\ retained' = <<>>

\* lines 441-453: the worker opens the document and sets up the scan
SearchOpen ==
    /\ pc = "spawned"
    /\ LET document == DocumentOpen(op.path)
       IN IF document.kind # "ok" THEN SearchReturns(Err("Failed to load PDF"))
          ELSE LET n == page_count(document.val)
               IN IF n.kind # "ok" THEN SearchReturns(Err("Failed to get page count"))
                  ELSE /\ num_pages' = n.val
                       /\ pc' = "page"
                       /\ calls' = [calls EXCEPT !.open = @ + 1]
                       /\ UNCHANGED <<ret, max_results, page_num, results, total_found,
                                      last_page, last_y, search_results, hit_i, retained>>
    /\ UNCHANGED <<file_vars, overflow_checks, doc, op, tasks, seen>>

\* lines 456-482: the head of the page loop, up to the page's search
SearchPage ==
    /\ pc = "page"
    /\ IF page_num >= num_pages \/ CapReached(total_found, max_results)
       THEN SearchReturns(Ok([query |-> op.query, total |-> Len(results),
                              results |-> results]))
       ELSE LET pdf_page == load_page(doc, page_num)
                bounds == IF pdf_page.kind = "ok" THEN page_bounds(pdf_page.val)
                          ELSE Err("no page")
                hits_remaining == HitsRemaining(max_results, total_found)
                found == IF bounds.kind = "ok"
                         THEN page_search(pdf_page.val, op.query, hits_remaining)
                         ELSE Err("no bounds")
            IN /\ calls' = IF bounds.kind = "ok"
                           THEN [calls EXCEPT !.search = @ + 1,
                                              !.hits_remaining = hits_remaining]
                           ELSE calls
               /\ IF found.kind # "ok"
                  THEN \* continue
                       /\ page_num' = page_num + 1
                       /\ UNCHANGED <<pc, search_results, hit_i, retained>>
                  ELSE /\ search_results' = found.val
                       /\ hit_i' = 1
                       /\ retained' = <<>>
                       /\ pc' = "hit"
                       /\ UNCHANGED page_num
               /\ UNCHANGED <<ret, max_results, num_pages, results, total_found,
                              last_page, last_y>>
    /\ UNCHANGED <<file_vars, overflow_checks, doc, op, tasks, seen>>

\* lines 484-511 for the hit the loop is at: is it a duplicate, and its context
HitIsDuplicate ==
    LET quad == search_results[hit_i]
        page_height == RectHeight(doc.pages[page_num + 1].bounds)
        y0 == Min(quad.ul.y, quad.ur.y)
    IN IsDuplicate(page_num + 1, Div(y0, page_height), last_page, last_y)

HitContext ==
    LET quad == search_results[hit_i]
        pdf_page == doc.pages[page_num + 1]
        y0 == Min(quad.ul.y, quad.ur.y)
        text_page == to_text_page(pdf_page)
    IN IF text_page.kind = "ok"
       THEN extract_context_around_match(text_page.val, op.query, y0)
       ELSE Ok(op.query)

\* a panic of the worker: the runtime's JoinError becomes the command's error
\* (lines 424-428) when panics unwind; the process ends when they abort
WorkerPanicOutcomes(msg) == {Err("Search task failed"), Panic(msg)}

\* lines 484-527 with the reference y also moved by a dropped hit
SearchHitMovesReference ==
    /\ pc = "hit"
    /\ IF hit_i <= Len(search_results) /\ ~HitIsDuplicate /\ HitContext.kind = "panic"
       THEN /\ \E r \in WorkerPanicOutcomes(HitContext.val) : SearchReturns(r)
            /\ UNCHANGED <<file_vars, overflow_checks, doc, op, tasks, seen>>
       ELSE /\ IF hit_i > Len(search_results)
               THEN \* the hit loop is over (at its end or by the break of line 525)
                    /\ page_num' = page_num + 1
                    /\ pc' = "page"
                    /\ UNCHANGED <<results, total_found, last_page, last_y, hit_i, retained>>
               ELSE LET quad == search_results[hit_i]
                        pdf_page == doc.pages[page_num + 1]
                        page_width == RectWidth(pdf_page.bounds)
                        page_height == RectHeight(pdf_page.bounds)
                        x0 == Min(quad.ul.x, quad.ll.x)
                        y0 == Min(quad.ul.y, quad.ur.y)
                        x1 == Max(quad.ur.x, quad.lr.x)
                        y1 == Max(quad.ll.y, quad.lr.y)
                        normalized_y == Div(y0, page_height)
                        current_page == page_num + 1
                    IN IF HitIsDuplicate
                       THEN /\ hit_i' = hit_i + 1
                            /\ retained' = Append(retained, FALSE)
                            /\ last_y' = normalized_y
                            /\ UNCHANGED <<pc, page_num, results, total_found, last_page>>
                       ELSE /\ results' = Push(results,
                                               [page |-> current_page, y |-> normalized_y,
                                                rect |-> [x |-> Div(x0, page_width),
                                                          y |-> normalized_y,
                                                          width |-> Div(x1 - x0, page_width),
                                                          height |-> Div(y1 - y0, page_height)],
                                                context |-> HitContext.val])
                            /\ last_page' = current_page
                            /\ last_y' = normalized_y
                            /\ total_found' = CountHit(total_found)
                            /\ retained' = Append(retained, TRUE)
                            /\ hit_i' = IF CapReached(CountHit(total_found), max_results)
                                        THEN Len(search_results) + 1   \* break
                                        ELSE hit_i + 1
                            /\ UNCHANGED <<pc, page_num>>
            /\ UNCHANGED <<file_vars, overflow_checks, doc, op, ret, calls, max_results, num_pages,
                           search_results, tasks, seen>>

\* lines 484-527: one turn of the hit loop
SearchHit ==
    /\ pc = "hit"
    /\ IF hit_i <= Len(search_results) /\ ~HitIsDuplicate /\ HitContext.kind = "panic"
       THEN /\ \E r \in WorkerPanicOutcomes(HitContext.val) : SearchReturns(r)
            /\ UNCHANGED <<file_vars, overflow_checks, doc, op, tasks, seen>>
       ELSE /\ IF hit_i > Len(search_results)
               THEN \* the hit loop is over (at its end or by the break of line 525)
                    /\ page_num' = page_num + 1
                    /\ pc' = "page"
                    /\ UNCHANGED <<results, total_found, last_page, last_y, hit_i, retained>>
               ELSE LET quad == search_results[hit_i]
                        pdf_page == doc.pages[page_num + 1]
                        page_width == RectWidth(pdf_page.bounds)
                        page_height == RectHeight(pdf_page.bounds)
                        x0 == Min(quad.ul.x, quad.ll.x)
                        y0 == Min(quad.ul.y, quad.ur.y)
                        x1 == Max(quad.ur.x, quad.lr.x)
                        y1 == Max(quad.ll.y, quad.lr.y)
                        normalized_y == Div(y0, page_height)
                        current_page == page_num + 1
                    IN IF HitIsDuplicate
                       THEN /\ hit_i' = hit_i + 1
                            /\ retained' = Append(retained, FALSE)
                            /\ UNCHANGED <<pc, page_num, results, total_found,
                                           last_page, last_y>>
                       ELSE /\ results' = Push(results,
                                               [page |-> current_page, y |-> normalized_y,
                                                rect |-> [x |-> Div(x0, page_width),
                                                          y |-> normalized_y,
                                                          width |-> Div(x1 - x0, page_width),
                                                          height |-> Div(y1 - y0, page_height)],
                                                context |-> HitContext.val])
                            /\ last_page' = current_page
                            /\ last_y' = normalized_y
                            /\ total_found' = CountHit(total_found)
                            /\ retained' = Append(retained, TRUE)
                            /\ hit_i' = IF CapReached(CountHit(total_found), max_results)
                                        THEN Len(search_results) + 1   \* break
                                        ELSE hit_i + 1
                            /\ UNCHANGED <<pc, page_num>>
            /\ UNCHANGED <<file_vars, overflow_checks, doc, op, ret, calls, max_results, num_pages,
                           search_results, tasks, seen>>

----------------------------------------------------------------------------
(* Concurrent searches.  pdf_search_text is async and runs each search on a *)
(* thread of its own (spawn_blocking, lines 424-428), which owns its        *)
(* arguments and locals: a worker is the record of them.  A worker takes    *)
(* one step for opening the document and one for each turn of the page loop.*)

IdleWorker ==
    [state |-> "idle", path |-> "", query |-> <<>>, max_arg |-> None, max_results |-> 0,
     num_pages |-> 0, page_num |-> 0, results |-> <<>>, total_found |-> 0,
     last_page |-> 0, last_y |-> <<-1, 1>>, ret |-> NoRet]

WorkerDone(w, r) == [w EXCEPT !.state = "done", !.ret = r]

\* lines 413-428: the command up to the dispatch of the worker
WorkerStart(path, query, max_results_opt) ==
    LET w == [IdleWorker EXCEPT !.path = path, !.query = query, !.max_arg = max_results_opt]
    IN IF QueryIsEmpty(query)
       THEN WorkerDone(w, Ok([query |-> query, total |-> 0, results |-> <<>>]))
       ELSE [w EXCEPT !.state = "spawned",
                      !.max_results = unwrap_or(max_results_opt, DEFAULT_MAX_RESULTS)]

\* lines 441-453
WorkerOpen(w) ==
    LET document == DocumentOpen(w.path)
    IN IF document.kind # "ok" THEN WorkerDone(w, Err("Failed to load PDF"))
       ELSE LET n == page_count(document.val)
            IN IF n.kind # "ok" THEN WorkerDone(w, Err("Failed to get page count"))
               ELSE [w EXCEPT !.state = "page", !.num_pages = n.val]

\* lines 484-527: the hit loop from hit i on
RECURSIVE WorkerHits(_, _, _, _)
WorkerHits(w, pdf_page, found, i) ==
    IF i > Len(found) THEN w
    ELSE LET quad == found[i]
             page_width == RectWidth(pdf_page.bounds)
             page_height == RectHeight(pdf_page.bounds)
             x0 == Min(quad.ul.x, quad.ll.x)
             y0 == Min(quad.ul.y, quad.ur.y)
             x1 == Max(quad.ur.x, quad.lr.x)
             y1 == Max(quad.ll.y, quad.lr.y)
             normalized_y == Div(y0, page_height)
             current_page == w.page_num + 1
             text_page == to_text_page(pdf_page)
             context == IF text_page.kind = "ok"
                        THEN extract_context_around_match(text_page.val, w.query, y0)
                        ELSE Ok(w.query)
         IN IF IsDuplicate(current_page, normalized_y, w.last_page, w.last_y)
            THEN WorkerHits(w, pdf_page, found, i + 1)
            ELSE IF context.kind = "panic" THEN WorkerDone(w, context)   \* the thread panics
            ELSE LET pushed ==
                        [w EXCEPT !.results =
                                      Push(w.results,
                                           [page |-> current_page, y |-> normalized_y,
                                            rect |-> [x |-> Div(x0, page_width),
                                                      y |-> normalized_y,
                                                      width |-> Div(x1 - x0, page_width),
                                                      height |-> Div(y1 - y0, page_height)],
                                            context |-> context.val]),
                                  !.last_page = current_page,
                                  !.last_y = normalized_y,
                                  !.total_found = CountHit(w.total_found)]
                 IN IF CapReached(pushed.total_found, pushed.max_results) THEN pushed
                    ELSE WorkerHits(pushed, pdf_page, found, i + 1)

\* lines 456-528: one turn of the page loop, or its end and the return (430-436)
WorkerPage(w) ==
    IF w.page_num >= w.num_pages \/ CapReached(w.total_found, w.max_results)
    THEN WorkerDone(w, Ok([query |-> w.query, total |-> Len(w.results),
                           results |-> w.results]))
    ELSE LET pdf_page == load_page(doc, w.page_num)
             bounds == IF pdf_page.kind = "ok" THEN page_bounds(pdf_page.val)
                       ELSE Err("no page")
             hits_remaining == HitsRemaining(w.max_results, w.total_found)
             found == IF bounds.kind = "ok"
                      THEN page_search(pdf_page.val, w.query, hits_remaining)
                      ELSE Err("no bounds")
             skipped == [w EXCEPT !.page_num = w.page_num + 1]
         IN IF found.kind # "ok" THEN skipped
            ELSE LET scanned == WorkerHits(w, pdf_page.val, found.val, 1)
                 IN IF scanned.state = "done" THEN scanned
                    ELSE [scanned EXCEPT !.page_num = w.page_num + 1]

WorkerStep(w) ==
    IF w.state = "spawned" THEN WorkerOpen(w)
    ELSE IF w.state = "page" THEN WorkerPage(w)
    ELSE w

InFlight(w) == w.state \in {"spawned", "page"}

\* search_text_blocking run from its dispatch to its end without anything in between
RECURSIVE RunAlone(_)
RunAlone(w) == IF InFlight(w) THEN RunAlone(WorkerStep(w)) ELSE w

----------------------------------------------------------------------------
(* pdf_open                                                                 *)

DEFAULT_PAGE_WIDTH == 612
DEFAULT_PAGE_HEIGHT == 792

\* lines 56-73 with the Err arm pushing nothing
RECURSIVE PageSizesLoopSkip(_, _, _, _)
PageSizesLoopSkip(document, i, num, acc) ==
    IF i >= num THEN Ok(acc)
    ELSE LET pdf_page == load_page(document, i)
         IN IF pdf_page.kind = "ok"
            THEN LET bounds == page_bounds(pdf_page.val)
                 IN IF bounds.kind # "ok" THEN Err("Failed to get page bounds")
                    ELSE PageSizesLoopSkip(document, i + 1, num,
                             Append(acc, [width |-> RectWidth(bounds.val),
                                          height |-> RectHeight(bounds.val)]))
            ELSE PageSizesLoopSkip(document, i + 1, num, acc)

\* lines 56-73: for i in 0..num_pages; a page that does not load gets the default
\* size (and a log::warn), a page whose bounds fail ends the command with the error
RECURSIVE PageSizesLoop(_, _, _, _)
PageSizesLoop(document, i, num, acc) ==
    IF i >= num THEN Ok(acc)
    ELSE LET pdf_page == load_page(document, i)
         IN IF pdf_page.kind = "ok"
            THEN LET bounds == page_bounds(pdf_page.val)
                 IN IF bounds.kind # "ok" THEN Err("Failed to get page bounds")
                    ELSE PageSizesLoop(document, i + 1, num,
                             Append(acc, [width |-> RectWidth(bounds.val),
                                          height |-> RectHeight(bounds.val)]))
            ELSE PageSizesLoop(document, i + 1, num,
                     Append(acc, [width |-> DEFAULT_PAGE_WIDTH,
                                  height |-> DEFAULT_PAGE_HEIGHT]))

pdf_open(path) ==
    LET document == DocumentOpen(path)
    IN IF document.kind # "ok" THEN Err("Failed to load PDF")
       ELSE LET count == page_count(document.val)
            IN IF count.kind # "ok" THEN Err("Failed to get page count")
               ELSE LET page_sizes == PageSizesLoop(document.val, 0, count.val, <<>>)
                    IN IF page_sizes.kind # "ok" THEN page_sizes
                       ELSE Ok([path |-> path, num_pages |-> count.val,
                                page_sizes |-> page_sizes.val])

----------------------------------------------------------------------------
(* pdf_get_metadata                                                         *)

\* document.metadata(name): Ok(string) or Err
metadata(document, name) == document.meta[name]

\* std::fs::metadata(&path).map(|m| m.len())
fs_len(path) == IF path = DocPath THEN doc.file_len ELSE None

\* line 676 without the filter: the engine's string whenever it is Ok
get_meta_unfiltered(document, name) ==
    LET r == metadata(document, name)
    IN IF r.kind = "ok" THEN Some(r.val) ELSE None

\* line 675-677: .ok().filter(|s| !s.is_empty())
get_meta(document, name) ==
    LET r == metadata(document, name)
    IN IF r.kind = "ok" /\ r.val # "" THEN Some(r.val) ELSE None

\* lines 664-696 with the page count's error replaced by 0
pdf_get_metadata_count_defaulted(path) ==
    LET document == DocumentOpen(path)
    IN IF document.kind # "ok" THEN Err("Failed to load PDF")
       ELSE LET count == page_count(document.val)
            IN Ok([fields |-> [name \in MetadataNameSet |-> get_meta(document.val, name)],
                   page_count |-> IF count.kind = "ok" THEN count.val ELSE 0,
                   file_size |-> unwrap_or(fs_len(path), 0)])

\* PdfMetadata: `fields` holds the ten Option<String> fields by name
pdf_get_metadata(path) ==
    LET document == DocumentOpen(path)
    IN IF document.kind # "ok" THEN Err("Failed to load PDF")
       ELSE LET count == page_count(document.val)
            IN IF count.kind # "ok" THEN Err("Failed to get page count")
               ELSE Ok([fields |-> [name \in MetadataNameSet |-> get_meta(document.val, name)],
                        page_count |-> count.val,
                        file_size |-> unwrap_or(fs_len(path), 0)])

----------------------------------------------------------------------------
(* convert_outline, pdf_get_outlines                                        *)
(* A node of the engine's outline is [title, page, y, down]: page is the    *)
(* 0-indexed target page (Option<u32>), y the vertical offset on it, down   *)
(* the children.                                                            *)

\* document.outlines()
outlines(document) ==
    IF document.outlines_ok THEN Ok(document.outlines) ELSE Err("Failed to get outlines")

\* line 585 without the conversion to 1-indexed
OutlinePageZeroIndexed(outline) == outline.page

\* lines 583-585, 602-605: page_num = p + 1 when the node has a target page
OutlinePage(outline) ==
    IF outline.page # None THEN Some(outline.page[1] + 1) ELSE None

\* lines 588-600 with the height taken from the document's first page
NormYFirstPage(outline, document) ==
    IF outline.page # None /\ outline.y > 0
    THEN LET pdf_page == load_page(document, 0)
         IN IF pdf_page.kind = "ok"
            THEN LET bounds == page_bounds(pdf_page.val)
                 IN IF bounds.kind = "ok"
                    THEN Some(Div(outline.y, RectHeight(bounds.val)))
                    ELSE None
            ELSE None
    ELSE None

\* lines 583, 588-600: norm_y
NormY(outline, document) ==
    IF outline.page # None /\ outline.y > 0
    THEN LET pdf_page == load_page(document, outline.page[1])
         IN IF pdf_page.kind = "ok"
            THEN LET bounds == page_bounds(pdf_page.val)
                 IN IF bounds.kind = "ok"
                    THEN Some(Div(outline.y, RectHeight(bounds.val)))
                    ELSE None
            ELSE None
    ELSE None

RECURSIVE convert_outline(_, _)
convert_outline(outline, document) ==
    [title |-> outline.title,
     page |-> OutlinePage(outline),
     y |-> NormY(outline, document),
     children |-> [i \in 1..Len(outline.down) |-> convert_outline(outline.down[i], document)]]

pdf_get_outlines(path) ==
    LET document == DocumentOpen(path)
    IN IF document.kind # "ok" THEN Err("Failed to load PDF")
       ELSE LET os == outlines(document.val)
            IN IF os.kind # "ok" THEN Err("Failed to get outlines")
               ELSE Ok([i \in 1..Len(os.val) |-> convert_outline(os.val[i], document.val)])

----------------------------------------------------------------------------
(* pdf_close, and the dispatch of a command by its name                     *)

\* lines 245-249: a no-op; () is the empty tuple
pdf_close(path) == Ok(<<>>)

\* the commands that run on the caller's thread, by name
CommandResult(o) ==
    CASE o.name = "pdf_open" -> pdf_open(o.path)
      [] o.name = "pdf_render_page" ->
            pdf_render_page(o.path, o.page, o.dpi, o.max_width, o.max_height, o.hide_annotations)
      [] o.name = "pdf_render_thumbnail" -> pdf_render_thumbnail(o.path, o.page, o.max_size)
      [] o.name = "pdf_render_thumbnails" -> pdf_render_thumbnails(o.path, o.pages, o.max_size)
      [] o.name = "pdf_close" -> pdf_close(o.path)
      [] o.name = "pdf_get_text_blocks" -> pdf_get_text_blocks(o.path, o.page)
      [] o.name = "pdf_get_outlines" -> pdf_get_outlines(o.path)
      [] o.name = "pdf_get_metadata" -> pdf_get_metadata(o.path)

----------------------------------------------------------------------------
(* Inputs                                                                   *)

MaxPages == 2

SeqsUpTo(S, n) == UNION {[1..k -> S] : k \in 0..n}

PageNumbers == 0..(MaxPages + 1)
Stages == {"load", "bounds", "pixmap", "png"}
DpiArgs == {None, Some(72), Some(100)}
MaxArgs == {None, Some(0), Some(5), Some(200)}
HideArgs == {None, Some(TRUE)}

RenderPages ==
    {PlainPage(b) : b \in {Letter, Rect(0, 0, 10, 20), Rect(0, 0, 595, 842)}}
        \cup {FailingPage(Letter, st) : st \in Stages}

RenderDocs(n) ==
    {MkDoc(TRUE, ps) : ps \in SeqsUpTo(RenderPages, n)}
        \cup {MkDoc(FALSE, <<>>),
              [MkDoc(TRUE, <<PlainPage(Letter)>>) EXCEPT !.count_ok = FALSE]}

(* A page's text structure is drawn as a stream of events of the engine's   *)
(* iterators: a character that decodes ("a"; which character it is follows  *)
(* from its position in the line), one that does not ("?"), the end of a    *)
(* line, the end of a block.  Every structure of blocks, lines and          *)
(* characters with at most MaxTokens parts is the parse of one such stream. *)

MaxTokens == 7
Tokens == {"a", "?", "EOL", "EOB"}

WellFormedStream(s) ==
    \/ s = <<>>
    \/ /\ s[Len(s)] = "EOB"
       \* a block ends after the end of a line or of a block, or is the first event
       /\ \A i \in 2..Len(s) : s[i] = "EOB" => s[i - 1] \in {"EOL", "EOB"}

TextStreams(n) == {s \in SeqsUpTo(Tokens, n) : WellFormedStream(s)}

\* blocks -> lines -> character tokens
RECURSIVE ParseStream(_, _, _, _)
ParseStream(s, blocks, lines, chars) ==
    IF s = <<>> THEN blocks
    ELSE IF Head(s) = "EOB" THEN ParseStream(Tail(s), Append(blocks, lines), <<>>, <<>>)
    ELSE IF Head(s) = "EOL" THEN ParseStream(Tail(s), blocks, Append(lines, chars), <<>>)
    ELSE ParseStream(Tail(s), blocks, lines, Append(chars, Head(s)))

\* Geometry: line n of the page (counted over all blocks) is the strip of height 3
\* below the n-1 strips before it, a character is 2 wide; everything is clipped to
\* the page's bounds b, so that all text lies inside the bounds rectangle.
ClipX(b, x) == Min(Max(x, b.x0), b.x1)
ClipY(b, y) == Min(Max(y, b.y0), b.y1)
Point(x, y) == [x |-> x, y |-> y]
Quad(x0, y0, x1, y1) ==
    [ul |-> Point(x0, y0), ur |-> Point(x1, y0), ll |-> Point(x0, y1), lr |-> Point(x1, y1)]

\* the character at position i of a line, when it decodes
Letters == <<"H", "e", "l", "l", "o", "W", "o", "r", "l", "d">>
LetterAt(i) == Letters[((i - 1) % Len(Letters)) + 1]

LayoutLine(cs, n, b) ==
    LET y0 == ClipY(b, b.y0 + 3 * (n - 1))
        y1 == ClipY(b, b.y0 + 3 * n)
    IN [bounds |-> Rect(b.x0, y0, ClipX(b, b.x0 + 2 * Len(cs)), y1),
        chars |-> [i \in 1..Len(cs) |->
                     [char |-> IF cs[i] = "?" THEN None ELSE Some(LetterAt(i)),
                      quad |-> Quad(ClipX(b, b.x0 + 2 * (i - 1)), y0,
                                    ClipX(b, b.x0 + 2 * i), y1)]]]

RECURSIVE LayoutBlocks(_, _, _)
LayoutBlocks(nested, n, b) ==
    IF nested = <<>> THEN <<>>
    ELSE LET ls == Head(nested)
             k == Max(Len(ls), 1)
         IN <<[bounds |-> Rect(b.x0, ClipY(b, b.y0 + 3 * n), b.x1, ClipY(b, b.y0 + 3 * (n + k))),
               lines |-> [j \in 1..Len(ls) |-> LayoutLine(ls[j], n + j, b)]]>>
                \o LayoutBlocks(Tail(nested), n + k, b)

TextPage(s, b) == [PlainPage(b) EXCEPT !.blocks = LayoutBlocks(ParseStream(s, <<>>, <<>>, <<>>), 0, b)]

\* page bounds: origin at (0, 0); origin elsewhere; no height
TextBounds == {Rect(0, 0, 20, 40), Rect(10, 10, 30, 50), Rect(0, 0, 20, 0)}

TextDocs(n) ==
    {MkDoc(TRUE, <<TextPage(s, b)>>) : s \in TextStreams(n), b \in TextBounds}
        \cup {MkDoc(TRUE, <<FailingPage(Letter, st)>>) : st \in {"load", "bounds", "text"}}
        \cup {MkDoc(FALSE, <<>>)}

----------------------------------------------------------------------------
(* The caller takes the result of the completed command.                    *)

TakeResult ==
    /\ op # NoOp
    /\ pc = "idle"
    /\ op' = NoOp
    /\ ret' = NoRet
    /\ UNCHANGED <<file_vars, overflow_checks, doc, search_vars, tasks>>

Return == TakeResult /\ UNCHANGED seen

----------------------------------------------------------------------------
(* Rendering one page                                                       *)

InitRender ==
    /\ overflow_checks \in BOOLEAN
    /\ NoFiles
    /\ doc \in RenderDocs(MaxPages)
    /\ op = NoOp
    /\ ret = NoRet
    /\ SearchIdle
    /\ tasks = NoTasks
    /\ seen = NoSeen

CallRenderPage ==
    /\ op = NoOp
    /\ \E path \in Paths, page \in PageNumbers, dpi \in DpiArgs,
          max_width \in MaxArgs, max_height \in MaxArgs, hide \in HideArgs :
          /\ op' = [name |-> "pdf_render_page", path |-> path, page |-> page, dpi |-> dpi,
                    max_width |-> max_width, max_height |-> max_height,
                    hide_annotations |-> hide]
          /\ ret' = pdf_render_page(path, page, dpi, max_width, max_height, hide)
    /\ UNCHANGED <<file_vars, overflow_checks, doc, search_vars, tasks, seen>>

CallGetTextBlocks ==
    /\ op = NoOp
    /\ \E path \in Paths, page \in PageNumbers :
          /\ op' = [name |-> "pdf_get_text_blocks", path |-> path, page |-> page]
          /\ ret' = pdf_get_text_blocks(path, page)
    /\ UNCHANGED <<file_vars, overflow_checks, doc, search_vars, tasks, seen>>

CallRenderThumbnail ==
    /\ op = NoOp
    /\ \E path \in Paths, page \in PageNumbers, max_size \in MaxArgs :
          /\ op' = [name |-> "pdf_render_thumbnail", path |-> path, page |-> page,
                    max_size |-> max_size]
          /\ ret' = pdf_render_thumbnail(path, page, max_size)
    /\ UNCHANGED <<file_vars, overflow_checks, doc, search_vars, tasks, seen>>

CallOpen ==
    /\ op = NoOp
    /\ \E path \in Paths :
          /\ op' = [name |-> "pdf_open", path |-> path]
          /\ ret' = pdf_open(path)
    /\ UNCHANGED <<file_vars, overflow_checks, doc, search_vars, tasks, seen>>

CallGetMetadata ==
    /\ op = NoOp
    /\ \E path \in Paths :
          /\ op' = [name |-> "pdf_get_metadata", path |-> path]
          /\ ret' = pdf_get_metadata(path)
    /\ UNCHANGED <<file_vars, overflow_checks, doc, search_vars, tasks, seen>>

NextRender ==
    \/ CallOpen
    \/ CallRenderPage
    \/ CallRenderThumbnail
    \/ CallGetTextBlocks
    \/ CallGetMetadata
    \/ Return

SpecRender == InitRender /\ [][NextRender]_vars

\* C1: a successful pdf_render_page returns width <= max_width when max_width is
\* supplied and height <= max_height when max_height is supplied
C1_RenderWithinMax ==
    (op.name = "pdf_render_page" /\ ret.kind = "ok") =>
        /\ (op.max_width # None => ret.val.width <= op.max_width[1])
        /\ (op.max_height # None => ret.val.height <= op.max_height[1])

\* C2: for a page number outside [1, page_count], pdf_render_page and
\* pdf_get_text_blocks return an error value: never a result, never a crash
PageInRange(path, page) == path = DocPath /\ doc.openable /\ page \in 1..Len(doc.pages)

C2_OutOfRangeIsError ==
    (op.name \in {"pdf_render_page", "pdf_get_text_blocks"} /\ ~PageInRange(op.path, op.page))
        => ret.kind = "err"

\* two results are the same result
SameRet(a, b) == a.kind = b.kind /\ a.val = b.val

\* C20: pdf_render_thumbnail(path, page, max_size) returns exactly what
\* pdf_render_page(path, page, dpi = 72, max_width = max_size, max_height = max_size,
\* hide_annotations unset) returns, max_size being 200 when omitted; an error of that
\* call is returned unchanged
C20_ThumbnailIsRenderPage ==
    op.name = "pdf_render_thumbnail" =>
        LET m == IF op.max_size = None THEN 200 ELSE op.max_size[1]
        IN SameRet(ret, pdf_render_page(op.path, op.page, Some(72), Some(m), Some(m), None))

\* a thumbnail of a page smaller than the box, which no clamp scales: its size is the
\* size at 72 dpi
C20_Witness ==
    /\ op.name = "pdf_render_thumbnail" /\ op.max_size = None /\ ret.kind = "ok"
    /\ ret.val.width = 10 /\ ret.val.height = 20

\* C18: when pdf_open succeeds, page_sizes has exactly num_pages entries and entry i
\* is the size of page i, in ascending page order (the default 612 x 792 stands for a
\* page that did not load); pdf_open fails when the path cannot be opened
C18_PageSizesPerPage ==
    op.name = "pdf_open" =>
        /\ ret.kind = "ok" =>
              /\ ret.val.num_pages = Len(doc.pages)
              /\ Len(ret.val.page_sizes) = ret.val.num_pages
              /\ \A i \in 1..Len(doc.pages) :
                    LET p == doc.pages[i]
                    IN ret.val.page_sizes[i] =
                          IF p.load_ok
                          THEN [width |-> RectWidth(p.bounds), height |-> RectHeight(p.bounds)]
                          ELSE [width |-> 612, height |-> 792]
        /\ ~(op.path = DocPath /\ doc.openable) => ret.kind = "err"

\* two pages of different sizes, each at its own position
C18_Witness ==
    /\ op.name = "pdf_open" /\ ret.kind = "ok"
    /\ ret.val.num_pages = 2
    /\ ret.val.page_sizes = <<[width |-> 10, height |-> 20], [width |-> 612, height |-> 792]>>
    /\ doc.pages[2].load_ok

\* The engine steps a single-item command performs on its way, in order, and the
\* error of the first that fails (None: all succeed).  For page 0 in a build with
\* overflow checks the command stops before load_page.  `open_loads` says whether a
\* page of pdf_open that does not load counts as a failed step.
RECURSIVE FirstPageFailure(_, _)
FirstPageFailure(i, open_loads) ==
    IF i > Len(doc.pages) THEN None
    ELSE IF ~doc.pages[i].load_ok
         THEN IF open_loads THEN Some("Failed to get page")
              ELSE FirstPageFailure(i + 1, open_loads)
    ELSE IF ~doc.pages[i].bounds_ok THEN Some("Failed to get page bounds")
    ELSE FirstPageFailure(i + 1, open_loads)

FirstFailure(o, open_loads) ==
    IF ~(o.path = DocPath /\ doc.openable) THEN Some("Failed to load PDF")
    ELSE IF o.name \in {"pdf_open", "pdf_get_metadata"}
         THEN IF ~doc.count_ok THEN Some("Failed to get page count")
              ELSE IF o.name = "pdf_open" THEN FirstPageFailure(1, open_loads)
              ELSE None
    ELSE IF o.page = 0 /\ overflow_checks THEN None
    ELSE IF o.page \notin 1..Len(doc.pages) THEN Some("Failed to get page")
    ELSE LET p == doc.pages[o.page]
         IN IF ~p.load_ok THEN Some("Failed to get page")
            ELSE IF ~p.bounds_ok THEN Some("Failed to get page bounds")
            ELSE IF o.name = "pdf_get_text_blocks"
                 THEN IF ~p.text_ok THEN Some("Failed to extract text") ELSE None
            ELSE IF ~p.pixmap_ok THEN Some("Failed to render page")
            ELSE IF ~p.png_ok THEN Some("Failed to encode PNG")
            ELSE None

SingleItemOps == {"pdf_open", "pdf_render_page", "pdf_get_text_blocks", "pdf_get_metadata"}

\* C17 as stated: a single-item command returns an error whenever an engine step it
\* performs fails (open, page count, page load, page bounds, rasterize, encode, text
\* extraction), a page load of pdf_open included
C17_AnyFailureIsError ==
    (op.name \in SingleItemOps /\ FirstFailure(op, TRUE) # None) => ret.kind = "err"

\* C17: a single-item command returns the error of the first engine step that fails,
\* except that pdf_open records the default size for a page that does not load and
\* goes on
C17_FirstFailureIsError ==
    (op.name \in SingleItemOps /\ FirstFailure(op, FALSE) # None) =>
        ret = Err(FirstFailure(op, FALSE)[1])

\* the second page's bounds fail after the first page did not load: pdf_open returns
\* the bounds error
C17_Witness ==
    /\ op.name = "pdf_open" /\ ret = Err("Failed to get page bounds")
    /\ Len(doc.pages) = 2 /\ ~doc.pages[1].load_ok /\ ~doc.pages[2].bounds_ok

\* the page a completed pdf_render_page call rendered
RenderedBounds == doc.pages[op.page].bounds

\* C21: with neither max_width nor max_height, pdf_render_page renders at scale
\* dpi/72 (dpi 150 when omitted): the image is as wide and as high as the page's
\* points times dpi/72, rounded up to whole pixels; a 612 x 792 page at dpi 72 gives
\* 612 x 792
C21_ScaleIsDpiOver72 ==
    (/\ op.name = "pdf_render_page" /\ ret.kind = "ok"
     /\ op.max_width = None /\ op.max_height = None) =>
        LET dpi == IF op.dpi = None THEN 150 ELSE op.dpi[1]
            w == RenderedBounds.x1 - RenderedBounds.x0
            h == RenderedBounds.y1 - RenderedBounds.y0
        IN /\ (ret.val.width - 1) * 72 < w * dpi /\ w * dpi <= ret.val.width * 72
           /\ (ret.val.height - 1) * 72 < h * dpi /\ h * dpi <= ret.val.height * 72
           /\ dpi = 72 => (ret.val.width = w /\ ret.val.height = h)

\* the 612 x 792 page at dpi 72
C21_Witness ==
    /\ op.name = "pdf_render_page" /\ ret.kind = "ok"
    /\ op.max_width = None /\ op.max_height = None /\ op.dpi = Some(72)
    /\ RenderedBounds = Letter
    /\ ret.val.width = 612 /\ ret.val.height = 792

\* the scale and the pixel box pdf_render_page computed in a completed call
RenderedBox ==
    RenderScale(RectWidth(RenderedBounds), RectHeight(RenderedBounds),
                unwrap_or(op.dpi, DEFAULT_DPI), op.max_width, op.max_height)

\* the pixel box of lines 109-110, before either clamp
UnclampedWidth ==
    Floor(<<RectWidth(RenderedBounds) * unwrap_or(op.dpi, DEFAULT_DPI), 72>>)

UnclampedHeight ==
    Floor(<<RectHeight(RenderedBounds) * unwrap_or(op.dpi, DEFAULT_DPI), 72>>)

\* C22: the width clamp comes first and both clamps only shrink: the computed box
\* is within max_width and max_height together, the scale is dpi/72 times the
\* ratio of every clamp that fired (the width ratio is max_width over the
\* unclamped width), a clamp that fired leaves its own side exactly at its
\* maximum unless the later height clamp shrinks the width again, and when both
\* fire the height is exactly max_height
C22_ClampsHoldTogether ==
    (op.name = "pdf_render_page" /\ ret.kind \in {"ok", "err"}
     /\ PageInRange(op.path, op.page)
     /\ doc.pages[op.page].load_ok /\ doc.pages[op.page].bounds_ok) =>
        LET r == RenderedBox
            dpi == unwrap_or(op.dpi, DEFAULT_DPI)
            cw == IF r.wfires THEN <<op.max_width[1], UnclampedWidth>> ELSE <<1, 1>>
            hbefore == IF r.wfires THEN Floor(<<UnclampedHeight * cw[1], cw[2]>>)
                       ELSE UnclampedHeight
            ch == IF r.hfires THEN <<op.max_height[1], hbefore>> ELSE <<1, 1>>
        IN /\ op.max_width # None => r.pixel_width <= op.max_width[1]
           /\ op.max_height # None => r.pixel_height <= op.max_height[1]
           /\ r.pixel_width <= UnclampedWidth /\ r.pixel_height <= UnclampedHeight
           /\ r.wfires <=> (op.max_width # None /\ UnclampedWidth > op.max_width[1])
           /\ r.hfires <=> (op.max_height # None /\ hbefore > op.max_height[1])
           /\ r.scale = Mul(Mul(Reduce(<<dpi, 72>>), cw), ch)
           /\ r.hfires => r.pixel_height = op.max_height[1]
           /\ (r.wfires /\ ~r.hfires) => r.pixel_width = op.max_width[1]

\* both clamps fire and the width ends strictly below max_width
C22_Witness ==
    /\ op.name = "pdf_render_page" /\ ret.kind = "ok"
    /\ RenderedBox.wfires /\ RenderedBox.hfires
    /\ RenderedBox.pixel_height = op.max_height[1]
    /\ RenderedBox.pixel_width < op.max_width[1]

----------------------------------------------------------------------------
(* Extracting the text of one page                                          *)

InitText ==
    /\ overflow_checks \in BOOLEAN
    /\ NoFiles
    /\ doc \in TextDocs(MaxTokens)
    /\ op = NoOp
    /\ ret = NoRet
    /\ SearchIdle
    /\ tasks = NoTasks
    /\ seen = NoSeen

NextText == CallGetTextBlocks \/ Return

SpecText == InitText /\ [][NextText]_vars

\* C4: every block returned by pdf_get_text_blocks has at least one line and every
\* line has non-empty text
C4_NoEmptyBlockOrLine ==
    (op.name = "pdf_get_text_blocks" /\ ret.kind = "ok") =>
        \A i \in 1..Len(ret.val.blocks) :
            LET block == ret.val.blocks[i]
            IN /\ Len(block.lines) >= 1
               /\ \A j \in 1..Len(block.lines) : block.lines[j].text # <<>>

\* the page had a block without lines, a line without a decodable character and a
\* block with only such lines, and still a block was returned
SourcePage == doc.pages[op.page]
C4_Witness ==
    /\ op.name = "pdf_get_text_blocks" /\ ret.kind = "ok"
    /\ Len(ret.val.blocks) >= 1
    /\ \E i \in 1..Len(SourcePage.blocks) : SourcePage.blocks[i].lines = <<>>
    /\ \E i \in 1..Len(SourcePage.blocks) :
          LET ls == SourcePage.blocks[i].lines
          IN /\ ls # <<>>
             /\ \A j \in 1..Len(ls) : ls[j].chars # <<>> /\ LineText(ls[j].chars) = <<>>
    /\ Len(ret.val.blocks) < Len(SourcePage.blocks)

\* C19: in every TextLineInfo returned, chars is parallel to text: as many chars
\* entries as text has characters, and the entries' characters in order are text
C19_CharsParallelToText ==
    (op.name = "pdf_get_text_blocks" /\ ret.kind = "ok") =>
        \A i \in 1..Len(ret.val.blocks) :
            \A j \in 1..Len(ret.val.blocks[i].lines) :
                LET line == ret.val.blocks[i].lines[j]
                IN /\ Len(line.chars) = Len(line.text)
                   /\ \A k \in 1..Len(line.text) : line.chars[k].char = line.text[k]

\* one block with the one line "Hello" yields one block, one line, text "Hello" and
\* five chars entries
C19_Witness ==
    /\ op.name = "pdf_get_text_blocks" /\ ret.kind = "ok"
    /\ Len(SourcePage.blocks) = 1 /\ Len(SourcePage.blocks[1].lines) = 1
    /\ Len(ret.val.blocks) = 1 /\ Len(ret.val.blocks[1].lines) = 1
    /\ ret.val.blocks[1].lines[1].text = <<"H", "e", "l", "l", "o">>
    /\ Len(ret.val.blocks[1].lines[1].chars) = 5

\* C5: on a well-formed page (positive size, all text geometry inside the bounds
\* rectangle, whatever its origin) every normalized rect has x, y, x+width, y+height
\* in [0, 1] and every normalized quad coordinate is in [0, 1]
InUnit(q) == q[2] > 0 /\ 0 <= q[1] /\ q[1] <= q[2]
Sum(q, r) == <<q[1] * r[2] + r[1] * q[2], q[2] * r[2]>>
RectInUnit(r) ==
    /\ InUnit(r.x) /\ InUnit(r.y)
    /\ InUnit(Sum(r.x, r.width)) /\ InUnit(Sum(r.y, r.height))

RectInside(r, b) == b.x0 <= r.x0 /\ r.x0 <= r.x1 /\ r.x1 <= b.x1
                    /\ b.y0 <= r.y0 /\ r.y0 <= r.y1 /\ r.y1 <= b.y1
PointInside(pt, b) == b.x0 <= pt.x /\ pt.x <= b.x1 /\ b.y0 <= pt.y /\ pt.y <= b.y1
QuadInside(q, b) ==
    PointInside(q.ul, b) /\ PointInside(q.ur, b) /\ PointInside(q.ll, b) /\ PointInside(q.lr, b)

WellFormedPage(p) ==
    /\ RectWidth(p.bounds) > 0 /\ RectHeight(p.bounds) > 0
    /\ \A i \in 1..Len(p.blocks) :
          /\ RectInside(p.blocks[i].bounds, p.bounds)
          /\ \A j \in 1..Len(p.blocks[i].lines) :
                LET line == p.blocks[i].lines[j]
                IN /\ RectInside(line.bounds, p.bounds)
                   /\ \A k \in 1..Len(line.chars) : QuadInside(line.chars[k].quad, p.bounds)

TextBlocksAll(P(_), Q(_)) ==
    \A i \in 1..Len(ret.val.blocks) :
        LET block == ret.val.blocks[i]
        IN /\ P(block.rect)
           /\ \A j \in 1..Len(block.lines) :
                 /\ P(block.lines[j].rect)
                 /\ \A k \in 1..Len(block.lines[j].chars) :
                       \A c \in 1..8 : Q(block.lines[j].chars[k].quad[c])

C5_NormalizedInUnit ==
    (op.name = "pdf_get_text_blocks" /\ ret.kind = "ok" /\ WellFormedPage(SourcePage))
        => TextBlocksAll(RectInUnit, InUnit)

\* C6: no division by a page width or height <= 0 is performed: every quotient
\* pdf_get_text_blocks returns has a positive divisor
PositiveDivisor(q) == q[2] > 0
RectPositiveDivisors(r) ==
    PositiveDivisor(r.x) /\ PositiveDivisor(r.y)
        /\ PositiveDivisor(r.width) /\ PositiveDivisor(r.height)

C6_NoNonPositiveDivisor ==
    (op.name = "pdf_get_text_blocks" /\ ret.kind = "ok")
        => TextBlocksAll(RectPositiveDivisors, PositiveDivisor)

----------------------------------------------------------------------------
(* Reading the metadata                                                     *)
(* For each of the ten names the engine answers with an error, with the     *)
(* empty string or with a string.                                           *)

MetaAnswers == {Err("no such key"), Ok(""), Ok("x")}

MetaDocs(names) ==
    {[MkDoc(TRUE, <<PlainPage(Letter)>>) EXCEPT !.meta = m] : m \in [names -> MetaAnswers]}
        \cup {MkDoc(FALSE, <<>>),
              [MkDoc(TRUE, <<PlainPage(Letter)>>) EXCEPT !.count_ok = FALSE],
              [MkDoc(TRUE, <<PlainPage(Letter)>>) EXCEPT !.file_len = None]}

InitMeta ==
    /\ overflow_checks \in BOOLEAN
    /\ NoFiles
    /\ doc \in MetaDocs(MetadataNameSet)
    /\ op = NoOp
    /\ ret = NoRet
    /\ SearchIdle
    /\ tasks = NoTasks
    /\ seen = NoSeen

NextMeta == CallGetMetadata \/ Return

SpecMeta == InitMeta /\ [][NextMeta]_vars

\* C16: each of the ten textual fields pdf_get_metadata returns is missing whenever
\* the engine answered with an error or with the empty string, and is never a present
\* empty string
C16_EmptyMetadataIsMissing ==
    (op.name = "pdf_get_metadata" /\ ret.kind = "ok") =>
        /\ DOMAIN ret.val.fields = MetadataNameSet
        /\ \A name \in MetadataNameSet :
              /\ (doc.meta[name].kind = "err" \/ doc.meta[name] = Ok(""))
                     => ret.val.fields[name] = None
              /\ ret.val.fields[name] # Some("")

\* the engine had a title, an empty author and no subject
C16_Witness ==
    /\ op.name = "pdf_get_metadata" /\ ret.kind = "ok"
    /\ doc.meta["title"] = Ok("x") /\ ret.val.fields["title"] = Some("x")
    /\ doc.meta["author"] = Ok("") /\ ret.val.fields["author"] = None
    /\ doc.meta["subject"].kind = "err" /\ ret.val.fields["subject"] = None

----------------------------------------------------------------------------
(* Reading the outline                                                      *)
(* The outline is drawn as a shape, a balanced stream of "D" (a node opens) *)
(* and "U" (it closes), and a kind for each node in document order: which   *)
(* page it targets and at which offset.  The document has four pages: 100   *)
(* high, 200 high, one that does not load, one whose bounds fail.           *)

MaxOutlineNodes == 3

\* [page, y] of a node: no target; page 0; page 1; page 1 at offset 0; page 1 at a
\* negative offset; the page that does not load; the page whose bounds fail; a page
\* past the end
NodeKinds ==
    {[page |-> None, y |-> 50], [page |-> Some(0), y |-> 50], [page |-> Some(1), y |-> 50],
     [page |-> Some(1), y |-> 0], [page |-> Some(1), y |-> -10],
     [page |-> Some(2), y |-> 50], [page |-> Some(3), y |-> 50], [page |-> Some(9), y |-> 50]}

ChapterTitles == <<"One", "Two", "Three", "Four", "Five">>

RECURSIVE Balanced(_, _)
Balanced(shape, depth) ==
    IF shape = <<>> THEN depth = 0
    ELSE IF Head(shape) = "D" THEN Balanced(Tail(shape), depth + 1)
    ELSE depth > 0 /\ Balanced(Tail(shape), depth - 1)

OutlineShapes(n) ==
    UNION {{sh \in [1..(2 * k) -> {"D", "U"}] : Balanced(sh, 0)} : k \in 0..n}

\* the forest of a shape: `open` holds, innermost last, the nodes still open with the
\* children they have so far; its first entry collects the top level
RECURSIVE BuildOutline(_, _, _, _)
BuildOutline(shape, kinds, k, open) ==
    IF shape = <<>> THEN open[1].down
    ELSE IF Head(shape) = "D"
         THEN BuildOutline(Tail(shape), kinds, k + 1,
                  Append(open, [title |-> ChapterTitles[k], page |-> kinds[k].page,
                                y |-> kinds[k].y, down |-> <<>>]))
    ELSE LET closed == open[Len(open)]
             parent == open[Len(open) - 1]
         IN BuildOutline(Tail(shape), kinds, k,
                Append(SubSeq(open, 1, Len(open) - 2),
                       [parent EXCEPT !.down = Append(parent.down, closed)]))

OutlineRoot == [title |-> "", page |-> None, y |-> 0, down |-> <<>>]

OutlinePages ==
    <<PlainPage(Rect(0, 0, 50, 100)), PlainPage(Rect(0, 0, 50, 200)),
      FailingPage(Letter, "load"), FailingPage(Letter, "bounds")>>

OutlineDoc(sh, kinds) ==
    [MkDoc(TRUE, OutlinePages) EXCEPT !.outlines = BuildOutline(sh, kinds, 1, <<OutlineRoot>>)]

InitOutline ==
    /\ overflow_checks \in BOOLEAN
    /\ NoFiles
    /\ \/ \E sh \in OutlineShapes(MaxOutlineNodes) :
             \E kinds \in [1..(Len(sh) \div 2) -> NodeKinds] : doc = OutlineDoc(sh, kinds)
       \/ doc \in {MkDoc(FALSE, <<>>), [MkDoc(TRUE, OutlinePages) EXCEPT !.outlines_ok = FALSE]}
    /\ op = NoOp
    /\ ret = NoRet
    /\ SearchIdle
    /\ tasks = NoTasks
    /\ seen = NoSeen

CallGetOutlines ==
    /\ op = NoOp
    /\ \E path \in Paths :
          /\ op' = [name |-> "pdf_get_outlines", path |-> path]
          /\ ret' = pdf_get_outlines(path)
    /\ UNCHANGED <<file_vars, overflow_checks, doc, search_vars, tasks, seen>>

NextOutline == CallGetOutlines \/ Return

SpecOutline == InitOutline /\ [][NextOutline]_vars

\* the entries of a converted forest paired with the source nodes at the same
\* positions, in document order
RECURSIVE OutlinePairs(_, _)
OutlinePairs(entries, nodes) ==
    IF entries = <<>> \/ nodes = <<>> THEN <<>>
    ELSE <<[entry |-> Head(entries), node |-> Head(nodes)]>>
            \o OutlinePairs(Head(entries).children, Head(nodes).down)
            \o OutlinePairs(Tail(entries), Tail(nodes))

\* the height of the page a node targets, when that page loads and has bounds
TargetHeight(node) ==
    IF /\ node.page # None
       /\ node.page[1] + 1 \in 1..Len(doc.pages)
       /\ doc.pages[node.page[1] + 1].load_ok
       /\ doc.pages[node.page[1] + 1].bounds_ok
    THEN Some(RectHeight(doc.pages[node.page[1] + 1].bounds))
    ELSE None

\* C13: an entry has a y only if its node has a target page, and then y is the
\* node's offset divided by the height of that page; a node without target page,
\* with an offset <= 0 or whose target page or its bounds cannot be loaded has no y
C13_OutlineY ==
    (op.name = "pdf_get_outlines" /\ ret.kind = "ok") =>
        LET pairs == OutlinePairs(ret.val, doc.outlines)
        IN \A i \in 1..Len(pairs) :
              LET e == pairs[i].entry
                  node == pairs[i].node
              IN /\ e.y # None => node.page # None
                 /\ e.y # None =>
                       /\ TargetHeight(node) # None
                       /\ e.y[1] = <<node.y, TargetHeight(node)[1]>>
                 /\ (node.page = None \/ node.y <= 0 \/ TargetHeight(node) = None)
                       => e.y = None

\* a node targeting the second page (200 high, the first is 100 high) at offset 50
\* has y = 50/200; its sibling targeting a page that does not load has a page and
\* no y
C13_Witness ==
    /\ op.name = "pdf_get_outlines" /\ ret.kind = "ok"
    /\ Len(ret.val) = 2
    /\ doc.outlines[1].page = Some(1) /\ ret.val[1].y = Some(<<50, 200>>)
    /\ doc.outlines[2].page = Some(2) /\ ret.val[2].page = Some(3) /\ ret.val[2].y = None

\* a converted forest has the shape of its source: as many entries in the same order,
\* each with its node's title, page + 1 or no page, and its node's children
RECURSIVE SameShape(_, _)
SameShape(entries, nodes) ==
    /\ Len(entries) = Len(nodes)
    /\ \A i \in 1..Len(nodes) :
          /\ entries[i].title = nodes[i].title
          /\ entries[i].page = IF nodes[i].page # None THEN <<nodes[i].page[1] + 1>> ELSE <<>>
          /\ SameShape(entries[i].children, nodes[i].down)

\* C14: pdf_get_outlines returns one entry per source node with the same title, the
\* same number and order of children at every level, page = source page + 1 when the
\* node has a target page and no page otherwise; an empty outline yields Ok([])
C14_OutlineShape ==
    (op.name = "pdf_get_outlines" /\ op.path = DocPath /\ doc.openable /\ doc.outlines_ok) =>
        /\ ret.kind = "ok"
        /\ SameShape(ret.val, doc.outlines)
        /\ doc.outlines = <<>> => ret = Ok(<<>>)

\* a node with two children, one of them without target page
C14_Witness ==
    /\ op.name = "pdf_get_outlines" /\ ret.kind = "ok"
    /\ Len(ret.val) = 1 /\ Len(ret.val[1].children) = 2
    /\ ret.val[1].children[1].title = "Two" /\ ret.val[1].children[2].title = "Three"
    /\ ret.val[1].children[1].page = None /\ ret.val[1].children[2].page = Some(1)

----------------------------------------------------------------------------
(* Rendering a batch of thumbnails                                          *)

MaxRequest == 3

Landscape == Rect(0, 0, 792, 612)
Square == Rect(0, 0, 600, 600)
ThumbPages == {PlainPage(Letter), PlainPage(Landscape), PlainPage(Square)}
                  \cup {FailingPage(Letter, st) : st \in Stages}
ThumbDocs(n) ==
    {MkDoc(TRUE, ps) : ps \in SeqsUpTo(ThumbPages, n)} \cup {MkDoc(FALSE, <<>>)}

InitThumbs ==
    /\ overflow_checks \in BOOLEAN
    /\ NoFiles
    /\ doc \in ThumbDocs(MaxPages)
    /\ op = NoOp
    /\ ret = NoRet
    /\ SearchIdle
    /\ tasks = NoTasks
    /\ seen = NoSeen

CallRenderThumbnails ==
    /\ op = NoOp
    /\ \E pages \in SeqsUpTo(PageNumbers, MaxRequest), max_size \in {None, Some(100)} :
          /\ op' = [name |-> "pdf_render_thumbnails", path |-> DocPath, pages |-> pages,
                    max_size |-> max_size]
          /\ ret' = pdf_render_thumbnails(DocPath, pages, max_size)
    /\ UNCHANGED <<file_vars, overflow_checks, doc, search_vars, tasks, seen>>

NextThumbs == CallRenderThumbnails \/ Return

SpecThumbs == InitThumbs /\ [][NextThumbs]_vars

\* load, bounds, rasterization and PNG encoding all succeed for the page
PageRenders(pnum) ==
    /\ pnum \in 1..Len(doc.pages)
    /\ LET p == doc.pages[pnum]
       IN p.load_ok /\ p.bounds_ok /\ p.pixmap_ok /\ p.png_ok

RECURSIVE PagesOf(_)
PagesOf(rendered) ==
    IF rendered = <<>> THEN <<>> ELSE <<Head(rendered).page>> \o PagesOf(Tail(rendered))

\* C3: on a document that opens, pdf_render_thumbnails returns success for every
\* list of requested pages, and the pages of the entries returned are the requested
\* pages that render, in the order requested, duplicates kept
C3_ThumbnailsPartialSuccess ==
    (op.name = "pdf_render_thumbnails" /\ doc.openable) =>
        /\ ret.kind = "ok"
        /\ PagesOf(ret.val) = SelectSeq(op.pages, PageRenders)

\* C23: every thumbnail pdf_render_thumbnails returns has the longer side of
\* its page exactly max_size (default 200) pixels and the other side scaled by the
\* same factor, rounded up: the width is max_size when the page is wider than
\* high, the height is max_size otherwise
C23_LongerSideIsMaxSize ==
    (op.name = "pdf_render_thumbnails" /\ ret.kind = "ok") =>
        \A i \in 1..Len(ret.val) :
            LET t == ret.val[i]
                w == RectWidth(doc.pages[t.page].bounds)
                h == RectHeight(doc.pages[t.page].bounds)
                max_size == IF op.max_size = None THEN 200 ELSE op.max_size[1]
            IN IF w > h
               THEN /\ t.width = max_size
                    /\ (t.height - 1) * w < h * max_size /\ h * max_size <= t.height * w
               ELSE /\ t.height = max_size
                    /\ (t.width - 1) * h < w * max_size /\ w * max_size <= t.width * h

\* a portrait and a landscape page in one answer with the default size;
\* the single-page path gives the portrait page another height
C23_Witness ==
    /\ op.name = "pdf_render_thumbnails" /\ ret.kind = "ok" /\ op.max_size = None
    /\ \E i, j \in 1..Len(ret.val) :
          /\ doc.pages[ret.val[i].page].bounds = Letter
          /\ ret.val[i].height = 200 /\ ret.val[i].width = 155
          /\ pdf_render_thumbnail(DocPath, ret.val[i].page, None).val.height = 201
          /\ doc.pages[ret.val[j].page].bounds = Landscape
          /\ ret.val[j].width = 200 /\ ret.val[j].height = 155

----------------------------------------------------------------------------
(* Searching the document                                                   *)
(* The hits the engine finds are drawn as a stream: a hit with top y 10, 13 *)
(* or 14 on the current page, the start of the next page ("NP"), or "FAIL": *)
(* the current page does not load.  Pages are 100 x 200, so that 0.02 of    *)
(* the page height is 4: the hits at 10 and 13 are closer than the          *)
(* threshold, those at 10 and 14 exactly at it.                             *)

MaxHitTokens == 5
MaxCap == 3

HitTokens == {"y10", "y13", "y14", "NP", "FAIL"}
HitY(tok) == IF tok = "y10" THEN 10 ELSE IF tok = "y13" THEN 13 ELSE 14
SearchBounds == Rect(0, 0, 100, 200)
HitQuad(y) == Quad(10, y, 30, y + 2)

\* the stream cut at each "NP"
RECURSIVE SplitPages(_, _, _)
SplitPages(s, pages, cur) ==
    IF s = <<>> THEN Append(pages, cur)
    ELSE IF Head(s) = "NP" THEN SplitPages(Tail(s), Append(pages, cur), <<>>)
    ELSE SplitPages(Tail(s), pages, Append(cur, Head(s)))

\* a page that does not load is the single event "FAIL"
WellFormedSegment(seg) == (\E i \in 1..Len(seg) : seg[i] = "FAIL") => seg = <<"FAIL">>

\* a "FAIL" page fails at the given step: load_page, bounds or search
SearchStages == {"load", "bounds", "search"}
HitPageFailing(seg, stage) ==
    IF seg = <<"FAIL">> THEN FailingPage(SearchBounds, stage)
    ELSE [PlainPage(SearchBounds) EXCEPT !.hits = [i \in 1..Len(seg) |-> HitQuad(HitY(seg[i]))]]

HitPage(seg) ==
    IF seg = <<"FAIL">> THEN FailingPage(SearchBounds, "load")
    ELSE [PlainPage(SearchBounds) EXCEPT !.hits = [i \in 1..Len(seg) |-> HitQuad(HitY(seg[i]))]]

HitStreams(n) ==
    {s \in SeqsUpTo(HitTokens, n) :
        LET segs == SplitPages(s, <<>>, <<>>)
        IN \A i \in 1..Len(segs) : WellFormedSegment(segs[i])}

SearchDocsFailingAt(n, stage) ==
    {LET segs == SplitPages(s, <<>>, <<>>)
     IN MkDoc(TRUE, [i \in 1..Len(segs) |-> HitPageFailing(segs[i], stage)]) :
        s \in HitStreams(n)}

SearchDocs(n) ==
    UNION {SearchDocsFailingAt(n, stage) : stage \in SearchStages}
        \cup {MkDoc(FALSE, <<>>),
              [MkDoc(TRUE, <<PlainPage(SearchBounds)>>) EXCEPT !.count_ok = FALSE]}

Queries == {<<>>, <<"a">>}
MaxResultsArgs == {None} \cup {Some(n) : n \in 0..MaxCap}

InitSearch ==
    /\ overflow_checks \in BOOLEAN
    /\ NoFiles
    /\ doc \in SearchDocs(MaxHitTokens)
    /\ op = NoOp
    /\ ret = NoRet
    /\ SearchIdle
    /\ tasks = NoTasks
    /\ seen = NoSeen

CallSearchText ==
    /\ op = NoOp
    /\ pc = "idle"
    /\ \E path \in Paths, query \in Queries, max_results_opt \in MaxResultsArgs :
          /\ op' = [name |-> "pdf_search_text", path |-> path, query |-> query,
                    max_results |-> max_results_opt]
          /\ pdf_search_text(path, query, max_results_opt)
    /\ UNCHANGED <<file_vars, overflow_checks, doc, tasks, seen>>

NextSearch == CallSearchText \/ SearchOpen \/ SearchPage \/ SearchHit \/ Return

SpecSearch == InitSearch /\ [][NextSearch]_vars

\* the top y of hit i of the page being scanned, normalized
HitNormY(i) == Div(Min(search_results[i].ul.y, search_results[i].ur.y),
                   RectHeight(doc.pages[page_num + 1].bounds))

\* C7: of two hits consecutive in discovery order on a page, the first retained (and
\* the cap not reached, so that the second is looked at): the second is dropped if
\* their normalized top y differ by less than 0.02 and retained otherwise
C7_DedupThreshold ==
    pc = "hit" =>
        \A i \in 2..Len(retained) :
            retained[i - 1] =>
                (retained[i] <=> ~Less(AbsDiff(HitNormY(i), HitNormY(i - 1)), <<2, 100>>))

\* a page on which a hit was retained after a retained one (at 0.02 exactly or
\* further) and a hit was dropped after a retained one
C7_Witness ==
    /\ pc = "hit"
    /\ \E i \in 2..Len(retained) : retained[i - 1] /\ retained[i]
    /\ \E i \in 2..Len(retained) : retained[i - 1] /\ ~retained[i]
    /\ \E i \in 2..Len(retained) :
          retained[i] /\ AbsDiff(HitNormY(i), HitNormY(i - 1)) = <<800, 40000>>

\* C8: the running count of retained hits never exceeds max_results and counts the
\* results; a successful pdf_search_text with a non-empty query returns
\* total = number of results <= max_results (1000 when omitted)
EffectiveCap == unwrap_or(op.max_results, 1000)

C8_TotalWithinCap ==
    /\ pc \in {"page", "hit"} =>
          /\ total_found <= max_results
          /\ total_found = Len(results)
          /\ max_results = EffectiveCap
    /\ (op.name = "pdf_search_text" /\ op.query # <<>> /\ ret.kind = "ok") =>
          /\ ret.val.total = Len(ret.val.results)
          /\ ret.val.total <= EffectiveCap

\* a search that stopped at its cap with hits left over
C8_Witness ==
    /\ op.name = "pdf_search_text" /\ op.query # <<>> /\ ret.kind = "ok"
    /\ op.max_results # None
    /\ ret.val.total = op.max_results[1]
    /\ ret.val.total >= 2
    /\ \E i \in 1..Len(doc.pages) : Len(doc.pages[i].hits) > ret.val.total

\* C9: results are ordered by non-decreasing page, every page is in
\* [1, page_count], and the results of one page are in the order the engine
\* returned that page's hits
RECURSIVE IsSubseq(_, _)
IsSubseq(a, b) ==
    IF a = <<>> THEN TRUE
    ELSE IF b = <<>> THEN FALSE
    ELSE IF Head(a) = Head(b) THEN IsSubseq(Tail(a), Tail(b))
    ELSE IsSubseq(a, Tail(b))

ResultYsOn(rs, p) ==
    LET on == SelectSeq(rs, LAMBDA r : r.page = p)
    IN [i \in 1..Len(on) |-> on[i].y[1]]
HitYsOn(p) ==
    [i \in 1..Len(doc.pages[p].hits) |->
        Min(doc.pages[p].hits[i].ul.y, doc.pages[p].hits[i].ur.y)]

C9_ResultOrder ==
    (op.name = "pdf_search_text" /\ ret.kind = "ok") =>
        LET rs == ret.val.results
        IN /\ \A i \in 1..Len(rs) : rs[i].page \in 1..Len(doc.pages)
           /\ \A i \in 1..(Len(rs) - 1) : rs[i].page <= rs[i + 1].page
           /\ \A p \in 1..Len(doc.pages) : IsSubseq(ResultYsOn(rs, p), HitYsOn(p))

\* results on two pages, two of them on one page with the lower hit first
C9_Witness ==
    /\ op.name = "pdf_search_text" /\ ret.kind = "ok"
    /\ LET rs == ret.val.results
       IN /\ \E i, j \in 1..Len(rs) : rs[i].page < rs[j].page
          /\ \E i \in 1..(Len(rs) - 1) :
                rs[i].page = rs[i + 1].page /\ rs[i].y[1] > rs[i + 1].y[1]

\* C10: with an empty query pdf_search_text returns Ok {query: "", total: 0,
\* results: []} for every path and max_results, without dispatching a worker,
\* opening the document or calling the engine's search
C10_EmptyQuery ==
    (op.name = "pdf_search_text" /\ op.query = <<>>) =>
        /\ ret = Ok([query |-> <<>>, total |-> 0, results |-> <<>>])
        /\ pc = "idle"
        /\ calls = NoCalls

\* the empty query on a path that does not open and on a document with hits
C10_Witness ==
    /\ op.name = "pdf_search_text" /\ op.query = <<>> /\ ret.kind = "ok"
    /\ (op.path # DocPath \/ ~doc.openable)

\* the hits of the page under scan retained so far
RetainedOnPage == Cardinality({i \in 1..Len(retained) : retained[i]})

\* C24: every time the scan calls the page search, the limit it passes is
\* min(max_results - hits retained so far, 100); the difference is at least 1
\* whenever a page is about to be searched, so the limit is within 1..100; the
\* page search returns no more hits than the limit
C24_HitLimit ==
    /\ (pc = "page" /\ page_num < num_pages /\ ~CapReached(total_found, max_results))
          => max_results - total_found >= 1
    /\ calls.search > 0 => calls.hits_remaining \in 1..100
    /\ pc = "hit" =>
          LET before == total_found - RetainedOnPage
          IN /\ before >= 0 /\ before < max_results
             /\ calls.hits_remaining = Min(max_results - before, 100)
             /\ Len(search_results) =
                   Min(Len(doc.pages[page_num + 1].hits), calls.hits_remaining)

\* one hit retained on the first page; the second page has three hits and is
\* searched with the limit 3 - 1 = 2
C24_Witness ==
    /\ pc = "hit" /\ max_results = 3 /\ total_found = 1 /\ page_num = 1
    /\ retained = <<>>
    /\ calls.hits_remaining = 2
    /\ Len(doc.pages[2].hits) = 3 /\ Len(search_results) = 2

\* the last hit of the page under scan retained before hit i (0 when there is none)
LastRetainedBefore(i) ==
    LET before == {j \in 1..(i - 1) : retained[j]}
    IN IF before = {} THEN 0 ELSE CHOOSE j \in before : \A k \in before : k <= j

\* adjacent results on one page are at least 0.02 apart
AdjacentApart(rs) ==
    \A i \in 1..(Len(rs) - 1) :
        rs[i].page = rs[i + 1].page =>
            ~Less(AbsDiff(rs[i].y, rs[i + 1].y), <<2, 100>>)

\* C25: a hit is compared with the last retained hit only: on a page, a hit
\* after the first is retained exactly when its normalized y is at least 0.02
\* away from the last hit retained before it, whatever hits were dropped in
\* between; the reference (last_page, last_y) is the last retained result; adjacent
\* results on one page, in the scan and in the answer, are at least 0.02 apart
C25_ReferenceIsLastRetained ==
    /\ pc = "hit" =>
          \A i \in 2..Len(retained) :
              LET j == LastRetainedBefore(i)
              IN /\ j > 0
                 /\ retained[i] <=> ~Less(AbsDiff(HitNormY(i), HitNormY(j)), <<2, 100>>)
    /\ pc \in {"page", "hit"} =>
          IF results = <<>> THEN last_page = 0 /\ last_y = <<-1, 1>>
          ELSE /\ last_page = results[Len(results)].page
               /\ last_y = results[Len(results)].y
    /\ AdjacentApart(results)
    /\ (op.name = "pdf_search_text" /\ ret.kind = "ok") => AdjacentApart(ret.val.results)

\* hits at 0.05, 0.065 and 0.07 of the page height: the second is dropped and the
\* third, 0.005 from the dropped one and 0.02 from the first, is retained
C25_Witness ==
    /\ pc = "hit" /\ retained = <<TRUE, FALSE, TRUE>>
    /\ Less(AbsDiff(HitNormY(3), HitNormY(2)), <<2, 100>>)
    /\ AbsDiff(HitNormY(3), HitNormY(1)) = <<800, 40000>>
    /\ Len(results) >= 2
    /\ last_y = HitNormY(3)

\* C29: the first hit the page search returns on a page is always retained,
\* whatever the last retained hit of an earlier page (the hit loop is entered
\* only below the cap): it is in the results with its page and its y
C29_FirstHitOfPageRetained ==
    (pc = "hit" /\ retained # <<>>) =>
        /\ retained[1]
        /\ \E i \in 1..Len(results) :
              results[i].page = page_num + 1 /\ results[i].y = HitNormY(1)

\* the first hit of the second page has the y of the last result of the first page
C29_Witness ==
    /\ pc = "hit" /\ page_num = 1 /\ Len(retained) = 1 /\ retained[1]
    /\ Len(results) >= 2
    /\ results[Len(results) - 1].page = 1
    /\ results[Len(results) - 1].y = HitNormY(1)
    /\ results[Len(results)].page = 2

\* load_page, bounds and search all succeed on page p
PageSearches(p) ==
    doc.pages[p].load_ok /\ doc.pages[p].bounds_ok /\ doc.pages[p].search_ok

\* C28: a search with a non-empty query fails only when the document does not
\* open or its page count cannot be read; a page whose load, bounds or search
\* fails has no result, and while the answer is below the cap every other page
\* with hits, before or after a failing page, has its first hit in the answer
C28_FailingPagesSkipped ==
    (op.name = "pdf_search_text" /\ op.query # <<>> /\ pc = "idle" /\ ret # NoRet) =>
        /\ ret.kind \in {"ok", "err"}
        /\ ret.kind = "err" <=> (op.path # DocPath \/ ~doc.openable \/ ~doc.count_ok)
        /\ ret.kind = "ok" =>
              LET rs == ret.val.results
              IN /\ \A i \in 1..Len(rs) :
                       rs[i].page \in 1..Len(doc.pages) /\ PageSearches(rs[i].page)
                 /\ Len(rs) < EffectiveCap =>
                       \A p \in 1..Len(doc.pages) :
                           (PageSearches(p) /\ doc.pages[p].hits # <<>>) =>
                               \E i \in 1..Len(rs) :
                                   /\ rs[i].page = p
                                   /\ rs[i].y = Div(doc.pages[p].hits[1].ul.y,
                                                     RectHeight(doc.pages[p].bounds))

----------------------------------------------------------------------------
(* The context of a search hit.  A page of 100 x 200 points with one hit at  *)
(* y = 10 and one or two lines of text: a line is `lead` spaces, `run`       *)
(* letters, possibly one two-byte character, and `tail` letters "b".         *)

MaxRun == 101

Repeat(c, k) == [i \in 1..k |-> c]

ContextText(lead, letter, run, wide, tail) ==
    Repeat(" ", lead) \o Repeat(letter, run)
        \o (IF wide THEN <<"eacute">> ELSE <<>>) \o Repeat("b", tail)

ContextLine(text, y) ==
    [bounds |-> Rect(0, y, 90, y + 2),
     chars |-> [i \in 1..Len(text) |-> [char |-> Some(text[i]), quad |-> Quad(0, y, 1, y + 2)]]]

\* the long lines: around 100 letters, with and without the two-byte character
LongTexts(n) ==
    {ContextText(lead, "a", run, wide, tail) :
        lead \in {0, 1}, run \in (n - 3)..n, wide \in BOOLEAN, tail \in {0, 2}}

\* the short lines: with the query in either case, or without it
ShortTexts ==
    {ContextText(lead, letter, run, wide, 2) :
        lead \in {0, 1}, letter \in {"a", "A"}, run \in {0, 3}, wide \in BOOLEAN}

\* a line 4 above the hit, at the hit, and 5 below it
LineYs == {6, 10, 15}

ContextPage(lines) ==
    [PlainPage(SearchBounds) EXCEPT
        !.hits = <<HitQuad(10)>>,
        !.blocks = IF lines = <<>> THEN <<>>
                   ELSE <<[bounds |-> Rect(0, 0, 90, 20), lines |-> lines]>>]

ContextDocs(n) ==
    {MkDoc(TRUE, <<ContextPage(<<ContextLine(t, y)>>)>>) :
        t \in LongTexts(n) \cup ShortTexts, y \in LineYs}
    \cup {MkDoc(TRUE, <<ContextPage(<<ContextLine(t1, y1), ContextLine(t2, 10)>>)>>) :
            t1 \in ShortTexts, y1 \in LineYs, t2 \in LongTexts(n)}
    \cup {MkDoc(TRUE, <<ContextPage(<<>>)>>),
          MkDoc(TRUE, <<[ContextPage(<<ContextLine(<<"a">>, 10)>>) EXCEPT !.text_ok = FALSE]>>)}

InitContext ==
    /\ overflow_checks \in BOOLEAN
    /\ NoFiles
    /\ doc \in ContextDocs(MaxRun)
    /\ op = NoOp
    /\ ret = NoRet
    /\ SearchIdle
    /\ tasks = NoTasks
    /\ seen = NoSeen

CallSearchContext ==
    /\ op = NoOp
    /\ pc = "idle"
    /\ \E query \in {<<"a">>, <<"A">>, <<"a", "b">>} :
          /\ op' = [name |-> "pdf_search_text", path |-> DocPath, query |-> query,
                    max_results |-> None]
          /\ pdf_search_text(DocPath, query, None)
    /\ UNCHANGED <<file_vars, overflow_checks, doc, tasks, seen>>

NextContext == CallSearchContext \/ SearchOpen \/ SearchPage \/ SearchHit \/ Return

SpecContext == InitContext /\ [][NextContext]_vars

\* the context as stated: the trimmed text of the first line, in block and line
\* order, within 5 units of the hit's top y or containing it and containing the
\* query whatever the case, cut to 100 characters and "..." when longer; the query
\* when there is no such line or no text structure
StatedContext(pdf_page, query, match_y) ==
    LET lines == AllLines(pdf_page.blocks)
        Near(line) ==
            \/ Abs(line.bounds.y0 - match_y) < 5
            \/ Abs(line.bounds.y1 - match_y) < 5
            \/ (match_y >= line.bounds.y0 /\ match_y <= line.bounds.y1)
        found == {i \in 1..Len(lines) :
                     /\ Near(lines[i])
                     /\ Contains(Lowercase(LineText(lines[i].chars)), Lowercase(query))}
    IN IF ~pdf_page.text_ok \/ found = {} THEN query
       ELSE LET first == CHOOSE i \in found : \A j \in found : i <= j
                trimmed == Trim(LineText(lines[first].chars))
            IN IF Len(trimmed) > 100 THEN SubSeq(trimmed, 1, 100) \o <<".", ".", ".">>
               ELSE trimmed

\* C26: the search of a document that opens ends with Ok, and the context of
\* every result is the stated context of its hit
C26_ContextAsStated ==
    (/\ op.name = "pdf_search_text" /\ op.query # <<>> /\ pc = "idle" /\ ret # NoRet
     /\ op.path = DocPath /\ doc.openable /\ doc.count_ok) =>
        /\ ret.kind = "ok"
        /\ \A i \in 1..Len(ret.val.results) :
              LET r == ret.val.results[i]
              IN r.context = StatedContext(doc.pages[r.page], op.query, r.y[1])

----------------------------------------------------------------------------
(* Searches dispatched concurrently                                         *)

MaxWorkers == 2
MaxConcTokens == 2

WorkerIds == 1..MaxWorkers

ConcDocs(n) ==
    {LET segs == SplitPages(s, <<>>, <<>>)
     IN MkDoc(TRUE, [i \in 1..Len(segs) |-> HitPage(segs[i])]) :
        s \in HitStreams(n)}
        \cup {MkDoc(FALSE, <<>>)}

ConcMaxResultsArgs == {None, Some(1)}

InitConc ==
    /\ overflow_checks \in BOOLEAN
    /\ NoFiles
    /\ doc \in ConcDocs(MaxConcTokens)
    /\ op = NoOp
    /\ ret = NoRet
    /\ SearchIdle
    /\ tasks = [id \in WorkerIds |-> IdleWorker]
    /\ seen = NoSeen

\* a dispatch that ends the searches in flight with what they have found so far
DispatchSearchCancels(id) ==
    /\ tasks[id].state = "idle"
    /\ \E query \in Queries, max_results_opt \in ConcMaxResultsArgs :
          tasks' = [other \in WorkerIds |->
                      IF other = id THEN WorkerStart(DocPath, query, max_results_opt)
                      ELSE IF InFlight(tasks[other])
                           THEN WorkerDone(tasks[other],
                                           Ok([query |-> tasks[other].query,
                                               total |-> Len(tasks[other].results),
                                               results |-> tasks[other].results]))
                      ELSE tasks[other]]
    /\ UNCHANGED <<file_vars, overflow_checks, doc, op, ret, search_vars, seen>>

\* the frontend invokes pdf_search_text on the document while other searches may be
\* in flight
DispatchSearch(id) ==
    /\ tasks[id].state = "idle"
    /\ \E query \in Queries, max_results_opt \in ConcMaxResultsArgs :
          tasks' = [tasks EXCEPT ![id] = WorkerStart(DocPath, query, max_results_opt)]
    /\ UNCHANGED <<file_vars, overflow_checks, doc, op, ret, search_vars, seen>>

\* the thread of search id runs one step
WorkerRun(id) ==
    /\ InFlight(tasks[id])
    /\ tasks' = [tasks EXCEPT ![id] = WorkerStep(tasks[id])]
    /\ UNCHANGED <<file_vars, overflow_checks, doc, op, ret, search_vars, seen>>

NextConc == \E id \in WorkerIds : DispatchSearch(id) \/ WorkerRun(id)

\* every thread of the blocking pool keeps being scheduled
SpecConc == InitConc /\ [][NextConc]_vars /\ \A id \in WorkerIds : WF_vars(WorkerRun(id))

\* a search that is over returned what it returns when it runs alone
ReturnsAsAlone ==
    \A id \in WorkerIds :
        tasks[id].state = "done" =>
            SameRet(tasks[id].ret,
                    RunAlone(WorkerStart(tasks[id].path, tasks[id].query, tasks[id].max_arg)).ret)

\* a search in flight changes only by a step of its own
OnlyOwnSteps ==
    \A id \in WorkerIds :
        InFlight(tasks[id]) => (tasks'[id] = tasks[id] \/ tasks'[id] = WorkerStep(tasks[id]))

\* C11: concurrent searches do not interfere: each dispatched pdf_search_text
\* eventually completes, no dispatch cancels or truncates a search in flight, and
\* each search returns exactly what it returns when run alone on the same document
C11_SearchesIndependent ==
    /\ []ReturnsAsAlone
    /\ [][OnlyOwnSteps]_vars
    /\ \A id \in WorkerIds : InFlight(tasks[id]) ~> (tasks[id].state = "done")

\* two searches in flight at once, each with a result of the first page already
C11_Witness ==
    /\ tasks[1].state = "page" /\ tasks[1].page_num = 1 /\ Len(tasks[1].results) = 1
    /\ tasks[2].state = "page" /\ tasks[2].page_num = 1 /\ Len(tasks[2].results) = 1
    /\ tasks[1].max_arg # tasks[2].max_arg

----------------------------------------------------------------------------
(* A session: the commands called one after the other in any order, any     *)
(* number of times, on one document.  seen[i] holds what call i returned    *)
(* the first time, and whether a pdf_close had returned before.             *)

SessionCalls ==
    <<[name |-> "pdf_open", path |-> DocPath],
      [name |-> "pdf_render_page", path |-> DocPath, page |-> 1, dpi |-> None,
       max_width |-> None, max_height |-> None, hide_annotations |-> None],
      [name |-> "pdf_render_thumbnail", path |-> DocPath, page |-> 2, max_size |-> None],
      [name |-> "pdf_render_thumbnails", path |-> DocPath, pages |-> <<2, 1>>, max_size |-> None],
      [name |-> "pdf_get_text_blocks", path |-> DocPath, page |-> 1],
      [name |-> "pdf_search_text", path |-> DocPath, query |-> <<"a">>, max_results |-> Some(1)],
      [name |-> "pdf_get_outlines", path |-> DocPath],
      [name |-> "pdf_get_metadata", path |-> DocPath],
      [name |-> "pdf_close", path |-> DocPath]>>

CallIndex(o) == CHOOSE i \in 1..Len(SessionCalls) : SessionCalls[i] = o
CloseIndex == CallIndex([name |-> "pdf_close", path |-> DocPath])

\* a page with the line "He" and two hits closer than the threshold
SessionPage ==
    [TextPage(<<"a", "a", "EOL", "EOB">>, SearchBounds) EXCEPT
        !.hits = <<HitQuad(10), HitQuad(13)>>]

SessionDoc(pages) ==
    [MkDoc(TRUE, pages) EXCEPT
        !.meta["title"] = Ok("x"),
        !.outlines = <<[title |-> "One", page |-> Some(1), y |-> 50, down |-> <<>>]>>]

SessionDocs ==
    {SessionDoc(<<SessionPage, PlainPage(Letter)>>),
     SessionDoc(<<FailingPage(Letter, "load"), SessionPage>>),
     MkDoc(FALSE, <<>>)}

InitSession ==
    /\ overflow_checks \in BOOLEAN
    /\ NoFiles
    /\ doc \in SessionDocs
    /\ op = NoOp
    /\ ret = NoRet
    /\ SearchIdle
    /\ tasks = NoTasks
    /\ seen = [i \in 1..Len(SessionCalls) |-> <<>>]

SessionCall ==
    /\ op = NoOp
    /\ pc = "idle"
    /\ \E i \in 1..Len(SessionCalls) :
          LET o == SessionCalls[i]
          IN /\ op' = o
             /\ IF o.name = "pdf_search_text"
                THEN pdf_search_text(o.path, o.query, o.max_results)
                ELSE ret' = CommandResult(o) /\ UNCHANGED search_vars
    /\ UNCHANGED <<file_vars, overflow_checks, doc, tasks, seen>>

SessionReturn ==
    /\ TakeResult
    /\ seen' = IF seen[CallIndex(op)] # <<>> THEN seen
               ELSE [seen EXCEPT ![CallIndex(op)] =
                        <<[ret |-> ret, closed |-> seen[CloseIndex] # <<>>]>>]

NextSession ==
    \/ SessionCall
    \/ SearchOpen
    \/ SearchPage
    \/ SearchHit
    \/ SessionReturn

SpecSession == InitSession /\ [][NextSession]_vars

\* C12: in any sequence of calls on an unmodified document, a call returns what the
\* same call returned before, whatever was called in between; pdf_close returns Ok
\* and changes nothing, so that calls on the path after it return what they returned
\* before it
C12_Stateless ==
    (op # NoOp /\ pc = "idle") =>
        /\ seen[CallIndex(op)] # <<>> => SameRet(ret, seen[CallIndex(op)][1].ret)
        /\ op.name = "pdf_close" => ret = Ok(<<>>)

\* a search that returns, after a pdf_close and other searches, the hit it returned
\* before the pdf_close
C12_Witness ==
    /\ op.name = "pdf_search_text" /\ op.max_results = Some(1) /\ pc = "idle"
    /\ ret.kind = "ok" /\ ret.val.total = 1
    /\ seen[CallIndex(op)] # <<>> /\ ~seen[CallIndex(op)][1].closed
    /\ seen[CloseIndex] # <<>>
    /\ \A i \in 1..Len(SessionCalls) : seen[i] # <<>>

----------------------------------------------------------------------------
(* replace_file (lib.rs).  A file system is a function from paths to the     *)
(* content of the file when it exists.  remove_file and rename can fail for  *)
(* reasons outside the command (permissions, a destination on another file   *)
(* system): the call draws whether each does.                                *)

FilePaths == {"a.pdf", "a.pdf.tmp", "b.pdf"}
FileContents == {"x", "y"}

\* Path::exists
path_exists(fs, path) == fs[path] # None

\* fs::remove_file: the file is gone, or the error and nothing changed
remove_file(fs, path, fails) ==
    IF fails \/ fs[path] = None THEN Err("remove_file") ELSE Ok([fs EXCEPT ![path] = None])

\* fs::rename: the destination holds the source's content and the source is gone,
\* or the error and nothing changed
rename(fs, from, to, fails) ==
    IF fails \/ fs[from] = None THEN Err("rename")
    ELSE IF from = to THEN Ok(fs)
    ELSE Ok([fs EXCEPT ![to] = fs[from], ![from] = None])

\* the result of the command and the file system it leaves
replace_file(fs, from, to, remove_fails, rename_fails) ==
    IF ~path_exists(fs, from)
    THEN [ret |-> Err("Source file does not exist"), files |-> fs]
    ELSE LET removed == IF path_exists(fs, to) THEN remove_file(fs, to, remove_fails)
                        ELSE Ok(fs)
         IN IF removed.kind # "ok"
            THEN [ret |-> Err("Failed to remove original file"), files |-> fs]
            ELSE LET renamed == rename(removed.val, from, to, rename_fails)
                 IN IF renamed.kind # "ok"
                    THEN [ret |-> Err("Failed to rename file"), files |-> removed.val]
                    ELSE [ret |-> Ok(<<>>), files |-> renamed.val]

InitReplace ==
    /\ overflow_checks \in BOOLEAN
    /\ doc = MkDoc(FALSE, <<>>)
    /\ op = NoOp
    /\ ret = NoRet
    /\ SearchIdle
    /\ tasks = NoTasks
    /\ seen = NoSeen
    /\ files \in [FilePaths -> {None} \cup {Some(c) : c \in FileContents}]
    /\ files_before = files
    /\ register = <<>>

CallReplaceFile ==
    /\ op = NoOp
    /\ pc = "idle"
    /\ \E from \in FilePaths, to \in FilePaths, remove_fails \in BOOLEAN, rename_fails \in BOOLEAN :
          LET r == replace_file(files, from, to, remove_fails, rename_fails)
          IN /\ op' = [name |-> "replace_file", from |-> from, to |-> to,
                       remove_fails |-> remove_fails, rename_fails |-> rename_fails]
             /\ ret' = r.ret
             /\ files' = r.files
             /\ files_before' = files
    /\ UNCHANGED <<overflow_checks, doc, search_vars, tasks, seen, register>>

NextReplace == CallReplaceFile \/ Return

SpecReplace == InitReplace /\ [][NextReplace]_vars

\* C27: whatever the outcome of replace_file(from, to), the destination holds its
\* original content or the source's and is not missing if it existed before; when
\* the source does not exist the call is an error and the destination is unchanged
C27_DestinationNeverLost ==
    (op.name = "replace_file" /\ ret # NoRet) =>
        /\ files[op.to] \in {files_before[op.to], files_before[op.from]}
        /\ files_before[op.to] # None => files[op.to] # None
        /\ files_before[op.from] = None =>
              (ret.kind = "err" /\ files[op.to] = files_before[op.to])

----------------------------------------------------------------------------
(* The annotation sidecar (annotations.rs).  A JSON text is invalid or       *)
(* denotes one annotation map; several texts denote the same map.            *)

PdfPaths == {"a.pdf", "b.pdf"}
AnnotationMaps == {"no annotations", "one highlight", "two comments"}
JsonForms == {"compact", "spaced"}
JsonTexts ==
    {[map |-> None, form |-> "not json"]}
        \cup {[map |-> Some(m), form |-> f] : m \in AnnotationMaps, f \in JsonForms}

\* lines 36-41 with one sidecar for every PDF
get_annotations_path_shared(pdf_path) == [sidecar_of |-> "a.pdf"]

\* lines 36-41: the file ".<name>.annotations.json" beside the PDF
get_annotations_path(pdf_path) == [sidecar_of |-> pdf_path]

\* serde_json::from_str::<HashMap<u32, Vec<Annotation>>>
from_str_annotations(text) ==
    IF text.map = None THEN Err("Invalid annotations JSON") ELSE Ok(text.map[1])

\* serde_json::to_string(&file.annotations)
to_string_annotations(annotations) == [map |-> Some(annotations), form |-> "compact"]

\* serde_json::to_string_pretty(&file)
to_string_pretty(file) == [file |-> file, form |-> "pretty"]

\* serde_json::from_str::<AnnotationsFile>
from_str_file(content) ==
    IF "file" \in DOMAIN content THEN Ok(content.file)
    ELSE Err("Failed to parse annotations file")

\* lines 43-65: the result and the file system the command leaves
annotations_save(fs, pdf_path, annotations_json) ==
    LET annotations_path == get_annotations_path(pdf_path)
        annotations == from_str_annotations(annotations_json)
    IN IF annotations.kind # "ok" THEN [ret |-> annotations, files |-> fs]
       ELSE LET file == [version |-> 1, pdf_path |-> pdf_path, annotations |-> annotations.val]
            IN [ret |-> Ok(annotations_path),
                files |-> [fs EXCEPT ![annotations_path] = Some(to_string_pretty(file))]]

\* lines 67-85
annotations_load(fs, pdf_path) ==
    LET annotations_path == get_annotations_path(pdf_path)
    IN IF fs[annotations_path] = None THEN [ret |-> Ok(None), files |-> fs]
       ELSE LET file == from_str_file(fs[annotations_path][1])
            IN IF file.kind # "ok" THEN [ret |-> file, files |-> fs]
               ELSE [ret |-> Ok(Some(to_string_annotations(file.val.annotations))),
                     files |-> fs]

\* lines 87-97
annotations_delete(fs, pdf_path) ==
    LET annotations_path == get_annotations_path(pdf_path)
    IN IF fs[annotations_path] # None
       THEN [ret |-> Ok(<<>>), files |-> [fs EXCEPT ![annotations_path] = None]]
       ELSE [ret |-> Ok(<<>>), files |-> fs]

SidecarPaths == {get_annotations_path(pdf_path) : pdf_path \in PdfPaths}

InitAnnotations ==
    /\ overflow_checks \in BOOLEAN
    /\ doc = MkDoc(FALSE, <<>>)
    /\ op = NoOp
    /\ ret = NoRet
    /\ SearchIdle
    /\ tasks = NoTasks
    /\ seen = NoSeen
    /\ files = [path \in SidecarPaths |-> None]
    /\ files_before = files
    /\ register = [pdf_path \in PdfPaths |-> None]

CallAnnotationsSave ==
    /\ op = NoOp
    /\ pc = "idle"
    /\ \E pdf_path \in PdfPaths, annotations_json \in JsonTexts :
          LET r == annotations_save(files, pdf_path, annotations_json)
          IN /\ op' = [name |-> "annotations_save", pdf_path |-> pdf_path,
                       annotations_json |-> annotations_json]
             /\ ret' = r.ret
             /\ files' = r.files
             /\ register' = IF r.ret.kind = "ok"
                            THEN [register EXCEPT ![pdf_path] = annotations_json.map]
                            ELSE register
    /\ files_before' = files
    /\ UNCHANGED <<overflow_checks, doc, search_vars, tasks, seen>>

CallAnnotationsLoad ==
    /\ op = NoOp
    /\ pc = "idle"
    /\ \E pdf_path \in PdfPaths :
          LET r == annotations_load(files, pdf_path)
          IN /\ op' = [name |-> "annotations_load", pdf_path |-> pdf_path]
             /\ ret' = r.ret
             /\ files' = r.files
    /\ files_before' = files
    /\ UNCHANGED <<overflow_checks, doc, search_vars, tasks, seen, register>>

CallAnnotationsDelete ==
    /\ op = NoOp
    /\ pc = "idle"
    /\ \E pdf_path \in PdfPaths :
          LET r == annotations_delete(files, pdf_path)
          IN /\ op' = [name |-> "annotations_delete", pdf_path |-> pdf_path]
             /\ ret' = r.ret
             /\ files' = r.files
             /\ register' = IF r.ret.kind = "ok" THEN [register EXCEPT ![pdf_path] = None]
                            ELSE register
    /\ files_before' = files
    /\ UNCHANGED <<overflow_checks, doc, search_vars, tasks, seen>>

NextAnnotations ==
    CallAnnotationsSave \/ CallAnnotationsLoad \/ CallAnnotationsDelete \/ Return

SpecAnnotations == InitAnnotations /\ [][NextAnnotations]_vars

\* the answer of annotations_load is the registered map: None when there is none,
\* a JSON text denoting the map otherwise
LoadAnswers(r, registered) ==
    /\ r.kind = "ok"
    /\ IF registered = None THEN r.val = None
       ELSE r.val # None /\ from_str_annotations(r.val[1]) = Ok(registered[1])

====
